---- MODULE Spec2Model ----
(***************************************************************************)
(* birdtradebot: order lifecycle and reconciliation engine.                *)
(*                                                                         *)
(* Twelve specifications share this module:                                *)
(*   SpecPair   - the Pair signal state machine (exchange.py, class Pair)  *)
(*   SpecSave   - save_app_state / load_app_state (app_state.py)           *)
(*   SpecLock   - foreground trade loop and dispatcher thread (run.py)     *)
(*   Spec       - the Account ledger, order submission and the startup     *)
(*                reconciliation (exchange.py class Account, run.py trade) *)
(*   SpecSplit  - split_order, split_amount, split_and_place_limit_order   *)
(*   SpecEngine - update_pair_position on one limit pair (run.py)          *)
(*   SpecFunds  - handle_insufficient_funds (run.py)                       *)
(*   SpecBuild  - new_order and Account.refresh_balance                    *)
(*   SpecMachine - TradingStateMachine._update_pairs (run.py)              *)
(*   SpecLockFair - SpecLock under fair scheduling of the two threads      *)
(*   SpecEngineFair - SpecEngine under fair scheduling of the dispatcher   *)
(*   SpecRefresh - the ledger of Spec with Account.refresh_balance         *)
(* Each specification drives its own group of variables and leaves the     *)
(* other groups at their initial value; SpecMachine also keeps the         *)
(* account's registry of pending orders.                                   *)
(***************************************************************************)
EXTENDS Integers, Sequences, FiniteSets, TLC

VARIABLES
    op,         \* the call served by the last step, with its arguments
    clock,      \* int(time.time())
    pair,       \* one Pair object (exchange.py:113-129)
    account_pairs,      \* Account.pairs (exchange.py:196), by key
    stateFile,  \* the file at the state path (app_state.py:24-35)
    tmpFile,    \* the file at the state path + '.tmp'
    savePc,     \* where save_app_state stands
    appState,   \* the AppState in memory, as a version number
    exchangeOf, \* config.accounts[name]['exchange'] (run.py:761)
    lock,       \* Exchange.lock of each exchange (exchange.py:68): its holder
    started,    \* the OrderDispatcher thread runs (run.py:692-696)
    pcMain,     \* where the foreground thread stands in trade / trade_loop
    curMain,    \* the account of the foreground thread's for loop
    firstStep,  \* stepnum == 0 (run.py:699)
    pcDisp,     \* where the dispatcher stands in update_accounts_positions
    curDisp,    \* the account of the dispatcher's for loop
    queue,      \* the work queue q (run.py:691)
    new_pairs,  \* the dispatcher's new_pairs, as the accounts with an entry
    pairs,      \* the dispatcher's pairs, as the accounts with a product
    acct,       \* per account: its pair is in progress / updated, and it
                \* holds an unconfirmed order
    virtual,    \* AccountState.virtual (exchange.py:101)
    extype,     \* Exchange.type (exchange.py:33)
    balance,    \* Account.balance (exchange.py:197)
    pending_orders,     \* Account.pending_orders (exchange.py:199)
    unconfirmed_orders, \* Account.unconfirmed_orders (exchange.py:198)
    done_orders,        \* Account.done_orders, as its set of keys
    saved,      \* the account as the state file holds it
    server,     \* the orders the exchange holds, by exchange id
    pcL,        \* where the account's thread of control stands
    frame,      \* the locals of the call or of the reconciliation under way
    requests,   \* the listing and cancel requests the reconciliation under
                \* way has sent to the exchange
    orders,     \* the OrderBatch of the dispatcher's pass (order.py:138-143)
    raised,     \* the exception the call under way has raised, or "None"
    pair_pending,       \* Pair.pending_orders (exchange.py:116)
    market_fallback,    \* Rule.market_fallback of the pair's rule (rule.py:18)
    book,       \* the orders of the pair at the exchange, by exchange id
    sent,       \* the requests update_pair_position has sent, in order
    hif         \* the locals of handle_insufficient_funds (run.py:584-620)

pairVars == <<clock, pair, account_pairs>>
saveVars == <<stateFile, tmpFile, savePc, appState>>
lockVars == <<exchangeOf, lock, started, pcMain, curMain, firstStep, pcDisp,
              curDisp, queue, new_pairs, pairs, acct>>
ledgerVars == <<virtual, extype, balance, pending_orders, unconfirmed_orders,
                done_orders, saved, server, pcL, frame, requests>>
batchVars == <<orders, raised, pair_pending, market_fallback, book, sent, hif>>

(***************************************************************************)
(* Bounds                                                                  *)
(***************************************************************************)
MaxTweetId == 2
MaxTime == 1
MaxVersion == 3
MaxQueue == 2
MaxOrders == 1

NoOp == [name |-> "none"]

(***************************************************************************)
(* Pair (exchange.py:113-187)                                              *)
(***************************************************************************)
Handles == {"h1", "h2"}

\* Rule (rule.py:8-30): the fields Pair.update reads.  Both agreement rules
\* and a rule without agreement handles are configured for the product.
Rules ==
    { [id |-> "buy_agree", side |-> "buy", agreement_handles |-> {"h1", "h2"},
       tweet_ttl |-> 0, ttl |-> 1],
      [id |-> "sell_agree", side |-> "sell", agreement_handles |-> {"h1", "h2"},
       tweet_ttl |-> 0, ttl |-> 1],
      [id |-> "buy_solo", side |-> "buy", agreement_handles |-> {},
       tweet_ttl |-> 0, ttl |-> 1] }

NoRule == "None"
RuleIds == {r.id : r \in Rules} \cup {NoRule}

\* Tweet (twitter.py:11-28): id, handle and created_ts.  Of a tweet saved in
\* pair.twitter the code reads the id and the position that Pair.update
\* stamped on it; NoTweet stands for a missing dictionary key.
NoTweet == [id |-> 0, position |-> "None"]

\* The tweets a poll can deliver at time now: just created, or as old as
\* the run.
Tweets(now) ==
    [id : 1..MaxTweetId, handle : Handles, created_ts : {0, now}]

\* pair.previous: the deepcopy(self) of exchange.py:178-179, kept to the
\* order totals, rule and status of the copied pair (its own previous is
\* None, its updated flag True and its error count 0 at the time of the copy).
NoPrevious ==
    [isset |-> FALSE, rule |-> NoRule, size |-> 0, filled_size |-> 0,
     executed_value |-> 0, status |-> "None"]

SnapshotNone(p) == NoPrevious

Snapshot(p) ==
    [isset |-> TRUE, rule |-> p.rule, size |-> p.size,
     filled_size |-> p.filled_size, executed_value |-> p.executed_value,
     status |-> p.status]

\* Pair.__init__ (exchange.py:114-129)
NewPair ==
    [rule |-> NoRule, size |-> 0, filled_size |-> 0, executed_value |-> 0,
     status |-> "done", settled |-> FALSE, expiration |-> 0,
     twitter |-> [h \in Handles |-> NoTweet], updated |-> FALSE,
     errors |-> 0, previous |-> NoPrevious]

\* exchange.py:146
PositionOf(rule) == IF rule.side = "buy" THEN "long" ELSE "short"

\* exchange.py:138-139: the saved tweet of the same handle is at least as recent.
IsStaleStrict(p, tweet) ==
    /\ p.twitter[tweet.handle] # NoTweet
    /\ tweet.id < p.twitter[tweet.handle].id

IsStaleNever(p, tweet) == FALSE

IsStale(p, tweet) ==
    /\ p.twitter[tweet.handle] # NoTweet
    /\ tweet.id <= p.twitter[tweet.handle].id

\* exchange.py:149-157: have_agreement, computed over the twitter map that
\* already holds the new tweet; a handle without a saved tweet (KeyError) is
\* passed over.
HaveAgreementAlways(twitter, rule, position) == TRUE

HaveAgreement(twitter, rule, position) ==
    \A h \in rule.agreement_handles :
        twitter[h] = NoTweet \/ twitter[h].position = position

\* exchange.py:166-167
IsExpiredTweetNever(rule, tweet, now) == FALSE

IsExpiredTweet(rule, tweet, now) == now > tweet.created_ts + rule.tweet_ttl

\* Pair.update (exchange.py:137-187)
Pair_update(p, rule, tweet, now) ==
    IF IsStale(p, tweet) THEN p
    ELSE
        LET stamped == [id |-> tweet.id, position |-> PositionOf(rule)]
            recorded == [p EXCEPT !.twitter[tweet.handle] = stamped]
        IN  IF rule.agreement_handles # {}
               /\ ~HaveAgreement(recorded.twitter, rule, stamped.position)
            THEN recorded
            ELSE IF IsExpiredTweet(rule, tweet, now) THEN recorded
            ELSE LET marked == [recorded EXCEPT !.updated = TRUE, !.errors = 0,
                                                !.previous = NoPrevious]
                 IN  [marked EXCEPT
                        !.previous = Snapshot(marked),
                        !.rule = rule.id,
                        !.expiration = now + rule.ttl,
                        !.size = 0,
                        !.filled_size = 0,
                        !.executed_value = 0,
                        !.status = "None",
                        !.settled = FALSE]

\* Pair.update_balance (exchange.py:131-135)
Pair_update_balance(p, order_state) ==
    [p EXCEPT !.filled_size = @ + order_state.filled_size,
              !.executed_value = @ + order_state.executed_value]

\* AccountState.pairs (exchange.py:107): no pair yet
NoPairs == [key \in {} |-> NewPair]

\* The pairs the run starts from: a new Pair, and a Pair as the dispatcher
\* leaves it with an order cycle under way or settled (run.py:335-336,
\* run.py:411-416).
InitialPairs ==
    { NewPair,
      [NewPair EXCEPT !.size = 1, !.status = "None"],
      [NewPair EXCEPT !.size = 1, !.filled_size = 1, !.executed_value = 1,
                      !.settled = TRUE] }

\* The variables of the other specifications, at rest.
SaveAtRest ==
    /\ stateFile = [kind |-> "absent", version |-> 0]
    /\ tmpFile = [kind |-> "absent", version |-> 0]
    /\ savePc = "idle"
    /\ appState = 0

Accounts == <<"a1", "a2">>
AccountIds == 1..Len(Accounts)
Exchanges == {"x1", "x2"}

LockAtRest ==
    /\ exchangeOf = [i \in AccountIds |-> "x1"]
    /\ lock = [x \in Exchanges |-> "free"]
    /\ started = FALSE
    /\ pcMain = "known_lock" /\ curMain = 1 /\ firstStep = TRUE
    /\ pcDisp = "not_started" /\ curDisp = 1
    /\ queue = <<>> /\ new_pairs = {} /\ pairs = {}
    /\ acct = [i \in AccountIds |->
                 [active |-> FALSE, updated |-> FALSE, unconfirmed |-> FALSE]]

Currencies == {"BTC", "EUR"}
NoFrame == [name |-> "none"]
EmptyMap == [x \in {} |-> 0]
NoRequests == [listed |-> {}, cancelled |-> {}]

LedgerAtRest ==
    /\ virtual = FALSE
    /\ extype = "gdax"
    /\ balance = [c \in Currencies |-> 0]
    /\ pending_orders = EmptyMap
    /\ unconfirmed_orders = <<>>
    /\ done_orders = {}
    /\ saved = NoFrame
    /\ server = EmptyMap
    /\ pcL = "none"
    /\ frame = NoFrame
    /\ requests = NoRequests

\* OrderBatch.__init__ (order.py:139-143)
OrderBatch == [new |-> <<>>, done |-> <<>>, pending |-> <<>>, error |-> <<>>]
\* No call of handle_insufficient_funds is under way.
NoCall == [name |-> "none", pc |-> "returned"]

BatchAtRest ==
    /\ orders = OrderBatch
    /\ raised = "None"
    /\ pair_pending = <<>>
    /\ market_fallback = FALSE
    /\ book = EmptyMap
    /\ sent = <<>>
    /\ hif = NoCall

InitPair ==
    /\ op = NoOp
    /\ clock = 0
    /\ pair \in InitialPairs
    /\ account_pairs = NoPairs
    /\ SaveAtRest
    /\ BatchAtRest
    /\ LockAtRest
    /\ LedgerAtRest

\* Pair.update on one Pair object, as TradingStateMachine._update_pairs
\* calls it for a relevant tweet on the pair it has found (run.py:653-656).
\* Tweet ids are unique across handles.
PairUpdate ==
    \E rule \in Rules, tweet \in Tweets(clock) :
        /\ \A h \in Handles \ {tweet.handle} : pair.twitter[h].id # tweet.id
        /\ pair' = Pair_update(pair, rule, tweet, clock)
        /\ op' = [name |-> "Pair.update", rule |-> rule, tweet |-> tweet,
                  our_tweet |-> pair.twitter[tweet.handle]]
        /\ UNCHANGED <<clock, account_pairs, saveVars, lockVars, ledgerVars,
                       batchVars>>

PairUpdateBalance ==
    \E order_state \in {[filled_size |-> 1, executed_value |-> 1]} :
        /\ pair.status # "done"
        /\ pair.filled_size < 1
        /\ pair' = Pair_update_balance(pair, order_state)
        /\ op' = [name |-> "Pair.update_balance"]
        /\ UNCHANGED <<clock, account_pairs, saveVars, lockVars, ledgerVars,
                       batchVars>>

Tick ==
    /\ clock < MaxTime
    /\ clock' = clock + 1
    /\ op' = [name |-> "tick"]
    /\ UNCHANGED <<pair, account_pairs, saveVars, lockVars, ledgerVars,
                   batchVars>>

vars == <<op, clock, pair, account_pairs, stateFile, tmpFile, savePc, appState, exchangeOf,
          lock, started, pcMain, curMain, firstStep, pcDisp, curDisp, queue,
          new_pairs, pairs, acct, virtual, extype, balance, pending_orders,
          unconfirmed_orders, done_orders, saved, server, pcL, frame, requests,
          orders, raised, pair_pending, market_fallback, book, sent, hif>>

NextPair == PairUpdate \/ PairUpdateBalance \/ Tick

SpecPair == InitPair /\ [][NextPair]_vars

(***************************************************************************)
(* save_app_state (app_state.py:24-35)                                     *)
(*                                                                         *)
(* A file is absent, holds a complete serialized state (of the version     *)
(* written) or holds a partial one: what open(..., 'w') leaves before      *)
(* the write, or a write that failed part-way.                             *)
(***************************************************************************)
Absent == [kind |-> "absent", version |-> 0]
Partial == [kind |-> "partial", version |-> 0]
Complete(v) == [kind |-> "complete", version |-> v]

\* The state changes in memory between two saves.
AppStateChange ==
    /\ savePc = "idle"
    /\ appState < MaxVersion
    /\ appState' = appState + 1
    /\ op' = [name |-> "change"]
    /\ UNCHANGED <<stateFile, tmpFile, savePc, pairVars, lockVars, ledgerVars, batchVars>>

\* app_state.py:26 open(path + '.tmp', 'w'): truncates the temporary file,
\* or raises IOError, which line 29 catches.
SaveOpen ==
    /\ savePc = "idle"
    /\ \E ok \in BOOLEAN :
          /\ tmpFile' = IF ok THEN Partial ELSE tmpFile
          /\ savePc' = IF ok THEN "opened" ELSE "rename"
          /\ op' = [name |-> "save.open", ok |-> ok]
    /\ UNCHANGED <<stateFile, appState, pairVars, lockVars, ledgerVars, batchVars>>

\* app_state.py:27-28 jsonpickle.dumps and fp.write: the whole document
\* reaches the temporary file, or one of them raises (ValueError, IOError,
\* TypeError), which line 29 catches after the with block closed the file.
SaveWrite ==
    /\ savePc = "opened"
    /\ \E ok \in BOOLEAN :
          /\ tmpFile' = IF ok THEN Complete(appState) ELSE Partial
          /\ op' = [name |-> "save.write", ok |-> ok]
    /\ savePc' = "rename"
    /\ UNCHANGED <<stateFile, appState, pairVars, lockVars, ledgerVars, batchVars>>

\* app_state.py:32-35 os.rename(path + '.tmp', path), reached whether or
\* not the write succeeded: atomically replaces the state file, or raises
\* OSError (always so when there is no temporary file), which is logged.
SaveRename ==
    /\ savePc = "rename"
    /\ \E ok \in BOOLEAN :
          /\ ok => tmpFile # Absent
          /\ stateFile' = IF ok THEN tmpFile ELSE stateFile
          /\ tmpFile' = IF ok THEN Absent ELSE tmpFile
          /\ op' = [name |-> "save.rename", ok |-> ok]
    /\ savePc' = "idle"
    /\ UNCHANGED <<appState, pairVars, lockVars, ledgerVars, batchVars>>

\* The process dies at any point of the save and is started again:
\* load_app_state (app_state.py:12-21) reads the state file, and starts
\* from a new AppState when it is missing or does not parse.
CrashAndLoad ==
    /\ savePc' = "idle"
    /\ appState' = IF stateFile.kind = "complete" THEN stateFile.version ELSE 0
    /\ op' = [name |-> "load", from |-> stateFile.kind]
    /\ UNCHANGED <<stateFile, tmpFile, pairVars, lockVars, ledgerVars, batchVars>>

InitSave ==
    /\ op = NoOp
    /\ clock = 0
    /\ pair = NewPair
    /\ account_pairs = NoPairs
    /\ SaveAtRest
    /\ BatchAtRest
    /\ LockAtRest
    /\ LedgerAtRest

NextSave == AppStateChange \/ SaveOpen \/ SaveWrite \/ SaveRename \/ CrashAndLoad

SpecSave == InitSave /\ [][NextSave]_vars

\* C4: the persisted state file always holds a complete, previously
\* serialized state: whatever point save_app_state is interrupted at or
\* whichever step of it fails, the file at the state path is never replaced
\* by a partial or failed write.
C4_StateFileNeverPartial == stateFile.kind # "partial"

(***************************************************************************)
(* Foreground thread (trade, trade_loop) and OrderDispatcher thread        *)
(* (update_accounts_positions), run.py:508-549, 688-841.                   *)
(*                                                                         *)
(* Every account works on one product, so the dispatcher's dictionaries    *)
(* new_pairs and pairs are the sets of accounts that have an entry.        *)
(***************************************************************************)
\* run.py:533, 712, 718, 796: the lock of the account's exchange
LockOfOneForAll(i) == "x1"

LockOf(i) == exchangeOf[i]

\* threading.Lock (exchange.py:68): `with account.exchange.lock` enters
\* only when no thread holds the lock.
CanAcquireAlways(x) == TRUE

CanAcquire(x) == lock[x] = "free"

Acquire(thread, i) ==
    /\ CanAcquire(LockOf(i))
    /\ lock' = [lock EXCEPT ![LockOf(i)] = thread]

Release(i) == lock' = [lock EXCEPT ![LockOf(i)] = "free"]

LastAccount(i) == i = Len(Accounts)

\* run.py:796-800: known_order_ids and account.save_state(), under the lock.
MainKnownLock ==
    /\ pcMain = "known_lock"
    /\ Acquire("main", curMain)
    /\ pcMain' = "known_body"
    /\ op' = [name |-> "lock", thread |-> "main", account |-> curMain]
    /\ UNCHANGED <<exchangeOf, started, curMain, firstStep, pcDisp, curDisp,
                   queue, new_pairs, pairs, acct, pairVars, saveVars, ledgerVars, batchVars>>

MainKnownBody ==
    /\ pcMain = "known_body"
    /\ Release(curMain)
    /\ pcMain' = IF LastAccount(curMain) THEN "reconcile_check" ELSE "known_lock"
    /\ curMain' = IF LastAccount(curMain) THEN 1 ELSE curMain + 1
    /\ op' = [name |-> "known_order_ids", thread |-> "main", account |-> curMain]
    /\ UNCHANGED <<exchangeOf, started, firstStep, pcDisp, curDisp, queue,
                   new_pairs, pairs, acct, pairVars, saveVars, ledgerVars, batchVars>>

\* run.py:811-814: an account without unconfirmed order is passed over; the
\* unconfirmed order is popped before the lock is taken.
MainReconcileCheck ==
    /\ pcMain = "reconcile_check"
    /\ IF acct[curMain].unconfirmed
       THEN /\ acct' = [acct EXCEPT ![curMain].unconfirmed = FALSE]
            /\ pcMain' = "reconcile_lock"
            /\ UNCHANGED curMain
       ELSE /\ pcMain' = IF LastAccount(curMain) THEN "start_thread"
                         ELSE "reconcile_check"
            /\ curMain' = IF LastAccount(curMain) THEN 1 ELSE curMain + 1
            /\ UNCHANGED acct
    /\ op' = [name |-> "unconfirmed_orders.pop", thread |-> "main",
              account |-> curMain]
    /\ UNCHANGED <<exchangeOf, lock, started, firstStep, pcDisp, curDisp,
                   queue, new_pairs, pairs, pairVars, saveVars, ledgerVars, batchVars>>

\* run.py:815
MainReconcileLock ==
    /\ pcMain = "reconcile_lock"
    /\ Acquire("main", curMain)
    /\ pcMain' = "reconcile_body"
    /\ op' = [name |-> "lock", thread |-> "main", account |-> curMain]
    /\ UNCHANGED <<exchangeOf, started, curMain, firstStep, pcDisp, curDisp,
                   queue, new_pairs, pairs, acct, pairVars, saveVars, ledgerVars, batchVars>>

\* run.py:816-839: the lost order is registered and cancelled, or refunded.
MainReconcileBody ==
    /\ pcMain = "reconcile_body"
    /\ Release(curMain)
    /\ pcMain' = IF LastAccount(curMain) THEN "start_thread"
                 ELSE "reconcile_check"
    /\ curMain' = IF LastAccount(curMain) THEN 1 ELSE curMain + 1
    /\ op' = [name |-> "reconcile", thread |-> "main", account |-> curMain]
    /\ UNCHANGED <<exchangeOf, started, firstStep, pcDisp, curDisp, queue,
                   new_pairs, pairs, acct, pairVars, saveVars, ledgerVars, batchVars>>

\* run.py:841-845, 691-696: save_state(), then trade_loop starts the thread.
MainStartThread ==
    /\ pcMain = "start_thread"
    /\ started' = TRUE
    /\ pcDisp' = "dequeue"
    /\ pcMain' = "get_tweets"
    /\ op' = [name |-> "Thread.start", thread |-> "main", account |-> 0]
    /\ UNCHANGED <<exchangeOf, lock, curMain, firstStep, curDisp, queue,
                   new_pairs, pairs, acct, pairVars, saveVars, ledgerVars, batchVars>>

\* run.py:704-710: get_tweets, outside any lock.
MainGetTweets ==
    /\ pcMain = "get_tweets"
    /\ pcMain' = "trade_lock"
    /\ curMain' = 1
    /\ op' = [name |-> "get_tweets", thread |-> "main", account |-> 0]
    /\ UNCHANGED <<exchangeOf, lock, started, firstStep, pcDisp, curDisp,
                   queue, new_pairs, pairs, acct, pairVars, saveVars, ledgerVars, batchVars>>

\* run.py:713-714
MainTradeLock ==
    /\ pcMain = "trade_lock"
    /\ Acquire("main", curMain)
    /\ pcMain' = "trade_body"
    /\ op' = [name |-> "lock", thread |-> "main", account |-> curMain]
    /\ UNCHANGED <<exchangeOf, started, curMain, firstStep, pcDisp, curDisp,
                   queue, new_pairs, pairs, acct, pairVars, saveVars, ledgerVars, batchVars>>

\* run.py:715-717: forget_old_orders and TradingStateMachine.step
\* (run.py:631-641): the tweets may update the account's pair; a pair that
\* is not done is queued on the first step or when it was updated.
MainTradeBody ==
    /\ pcMain = "trade_body"
    /\ \E accepted \in BOOLEAN :
         LET active == acct[curMain].active \/ accepted
             updated == acct[curMain].updated \/ accepted
             put == active /\ (firstStep \/ updated)
         IN  /\ put => Len(queue) < MaxQueue
             /\ queue' = IF put THEN Append(queue, curMain) ELSE queue
             /\ acct' = [acct EXCEPT ![curMain].active = active,
                                     ![curMain].updated = updated /\ ~put]
    /\ Release(curMain)
    /\ pcMain' = IF LastAccount(curMain) THEN "status_check" ELSE "trade_lock"
    /\ curMain' = IF LastAccount(curMain) THEN 1 ELSE curMain + 1
    /\ op' = [name |-> "step", thread |-> "main", account |-> curMain]
    /\ UNCHANGED <<exchangeOf, started, firstStep, pcDisp, curDisp, new_pairs,
                   pairs, pairVars, saveVars, ledgerVars, batchVars>>

\* run.py:719, 725-726: the hourly status is due or not; stepnum += 1, sleep.
MainStatusCheck ==
    /\ pcMain = "status_check"
    /\ \E due \in BOOLEAN :
          /\ pcMain' = IF due THEN "status_lock" ELSE "get_tweets"
          /\ firstStep' = IF due THEN firstStep ELSE FALSE
    /\ op' = [name |-> "status", thread |-> "main", account |-> 0]
    /\ UNCHANGED <<exchangeOf, lock, started, curMain, pcDisp, curDisp, queue,
                   new_pairs, pairs, acct, pairVars, saveVars, ledgerVars, batchVars>>

\* run.py:720-721
MainStatusLock ==
    /\ pcMain = "status_lock"
    /\ Acquire("main", curMain)
    /\ pcMain' = "status_body"
    /\ op' = [name |-> "lock", thread |-> "main", account |-> curMain]
    /\ UNCHANGED <<exchangeOf, started, curMain, firstStep, pcDisp, curDisp,
                   queue, new_pairs, pairs, acct, pairVars, saveVars, ledgerVars, batchVars>>

\* run.py:722-726: account.refresh_balance; after the last account
\* stepnum += 1 and the loop sleeps.
MainStatusBody ==
    /\ pcMain = "status_body"
    /\ Release(curMain)
    /\ pcMain' = IF LastAccount(curMain) THEN "get_tweets" ELSE "status_lock"
    /\ curMain' = IF LastAccount(curMain) THEN 1 ELSE curMain + 1
    /\ firstStep' = IF LastAccount(curMain) THEN FALSE ELSE firstStep
    /\ op' = [name |-> "refresh_balance", thread |-> "main", account |-> curMain]
    /\ UNCHANGED <<exchangeOf, started, pcDisp, curDisp, queue, new_pairs,
                   pairs, acct, pairVars, saveVars, ledgerVars, batchVars>>

\* run.py:520-531: q.get(block) takes an item into new_pairs.
DispGet ==
    /\ pcDisp = "dequeue"
    /\ queue # <<>>
    /\ new_pairs' = new_pairs \cup {Head(queue)}
    /\ queue' = Tail(queue)
    /\ op' = [name |-> "q.get", thread |-> "disp", account |-> Head(queue)]
    /\ UNCHANGED <<exchangeOf, lock, started, pcMain, curMain, firstStep,
                   pcDisp, curDisp, pairs, acct, pairVars, saveVars, ledgerVars, batchVars>>

\* run.py:521, 526-527: queue.Empty ends the inner loop; the get blocks
\* instead when pairs and new_pairs are both empty.
DispEmpty ==
    /\ pcDisp = "dequeue"
    /\ queue = <<>>
    /\ pairs # {} \/ new_pairs # {}
    /\ pcDisp' = "update_lock"
    /\ curDisp' = 1
    /\ op' = [name |-> "queue.Empty", thread |-> "disp", account |-> 0]
    /\ UNCHANGED <<exchangeOf, lock, started, pcMain, curMain, firstStep,
                   queue, new_pairs, pairs, acct, pairVars, saveVars, ledgerVars, batchVars>>

\* run.py:533-534
DispUpdateLock ==
    /\ pcDisp = "update_lock"
    /\ Acquire("disp", curDisp)
    /\ pcDisp' = "update_body"
    /\ op' = [name |-> "lock", thread |-> "disp", account |-> curDisp]
    /\ UNCHANGED <<exchangeOf, started, pcMain, curMain, firstStep, curDisp,
                   queue, new_pairs, pairs, acct, pairVars, saveVars, ledgerVars, batchVars>>

\* run.py:535-549 with update_account_position (run.py:480-505): the new
\* product joins pairs, every product of pairs is worked on and leaves
\* pairs when its pair is done; save_state; the new_pairs entry is deleted.
\* An exception of the exchange calls leaves the with block, releasing the
\* lock, and ends the thread.
DispUpdateBody ==
    /\ pcDisp = "update_body"
    /\ \E outcome \in {"done", "pending", "raise"} :
         LET has == curDisp \in pairs \/ curDisp \in new_pairs
         IN  /\ ~has => outcome = "pending"
             /\ pairs' = IF has /\ outcome = "pending" THEN pairs \cup {curDisp}
                         ELSE IF has /\ outcome = "done" THEN pairs \ {curDisp}
                         ELSE pairs
             /\ new_pairs' = IF outcome = "raise" THEN new_pairs
                             ELSE new_pairs \ {curDisp}
             /\ acct' = IF has /\ outcome = "done"
                        THEN [acct EXCEPT ![curDisp].active = FALSE]
                        ELSE acct
             /\ pcDisp' = IF outcome = "raise" THEN "dead"
                          ELSE IF LastAccount(curDisp) THEN "dequeue"
                          ELSE "update_lock"
             /\ curDisp' = IF outcome = "raise" \/ LastAccount(curDisp)
                           THEN curDisp ELSE curDisp + 1
             /\ op' = [name |-> "update_account_position", thread |-> "disp",
                       account |-> curDisp, outcome |-> outcome]
    /\ Release(curDisp)
    /\ UNCHANGED <<exchangeOf, started, pcMain, curMain, firstStep, queue,
                   pairVars, saveVars, ledgerVars, batchVars>>

InitLock ==
    /\ op = NoOp
    /\ clock = 0
    /\ pair = NewPair
    /\ account_pairs = NoPairs
    /\ SaveAtRest
    /\ BatchAtRest
    /\ LedgerAtRest
    /\ exchangeOf \in {f \in [AccountIds -> Exchanges] : f[1] = "x1"}
    /\ lock = [x \in Exchanges |-> "free"]
    /\ started = FALSE
    /\ pcMain = "known_lock" /\ curMain = 1 /\ firstStep = TRUE
    /\ pcDisp = "not_started" /\ curDisp = 1
    /\ queue = <<>> /\ new_pairs = {} /\ pairs = {}
    /\ acct \in [AccountIds ->
                   [active : BOOLEAN, updated : {FALSE}, unconfirmed : BOOLEAN]]

NextLock ==
    \/ MainKnownLock \/ MainKnownBody
    \/ MainReconcileCheck \/ MainReconcileLock \/ MainReconcileBody
    \/ MainStartThread \/ MainGetTweets
    \/ MainTradeLock \/ MainTradeBody
    \/ MainStatusCheck \/ MainStatusLock \/ MainStatusBody
    \/ DispGet \/ DispEmpty \/ DispUpdateLock \/ DispUpdateBody

SpecLock == InitLock /\ [][NextLock]_vars

\* The points where a thread is about to mutate account i's balance, pairs,
\* pending_orders, unconfirmed_orders or done_orders.
MainMutates(i) ==
    /\ curMain = i
    /\ \/ pcMain \in {"reconcile_body", "trade_body", "status_body"}
       \/ pcMain = "reconcile_check" /\ acct[i].unconfirmed

DispMutates(i) == curDisp = i /\ pcDisp = "update_body"

\* C3: in every interleaving of the foreground trade loop and the
\* dispatcher thread, a thread that mutates an account's balance, pairs,
\* pending_orders, unconfirmed_orders or done_orders holds that account's
\* lock, and the two threads are never both inside code that mutates the
\* same account.
\* Once the dispatcher thread runs: no thread stands at a mutation point
\* of an account without that account's lock, the two threads never stand
\* at mutation points of the same account together, and every step that
\* changes an account's data is taken by the thread that holds its lock.
C3_MutationUnderLock ==
    /\ [](started =>
            \A i \in AccountIds :
                /\ MainMutates(i) => lock[LockOf(i)] = "main"
                /\ DispMutates(i) => lock[LockOf(i)] = "disp"
                /\ ~(MainMutates(i) /\ DispMutates(i)))
    /\ [][ started =>
            \A i \in AccountIds :
                acct'[i] # acct[i] => lock[LockOf(i)] = op'.thread ]_vars

\* The dispatcher is inside update_account_position for an account while
\* the foreground loop waits for the lock of the same account.
C3_Witness ==
    /\ started
    /\ pcDisp = "update_body" /\ pcMain = "trade_lock"
    /\ curMain = curDisp
    /\ curMain \in pairs \cup new_pairs

(***************************************************************************)
(* Account ledger, order submission and startup reconciliation             *)
(* (exchange.py:190-481, run.py:793-841).                                  *)
(*                                                                         *)
(* One account trades one product, BTC-EUR.  Sizes and base balances are   *)
(* whole numbers; quote amounts (balances, executed value, fees, captured  *)
(* quote) are counted in thousandths, so that the 0.003 taker fee of an    *)
(* amount is again a whole number and Decimal arithmetic is exact.         *)
(***************************************************************************)
Sides == {"buy", "sell"}
Max(a, b) == IF a >= b THEN a ELSE b
Quote(n) == n * 1000
Put(f, k, v) == [x \in DOMAIN f \cup {k} |-> IF x = k THEN v ELSE f[x]]
Del(f, k) == [x \in DOMAIN f \ {k} |-> f[x]]

\* Exchange.taker_fee, in thousandths (only gdax configures one).
taker_fee(x) == IF x = "gdax" THEN 3 ELSE 0

\* The concrete orders Account.buy / Account.sell are called with.
Orders ==
    { o \in [side : Sides, type : {"limit", "market"}, size : {1, 2},
             price : {2}, post_only : BOOLEAN] :
        o.post_only => (o.type = "limit" /\ o.side = "buy") }

\* ActiveOrder(order, currency, captured): an order with what was captured
\* for it.  A non-virtual account captures nothing: (None, None).
ActiveOrder(order, currency, captured) ==
    [order |-> order, currency |-> currency, captured |-> captured]
NoActive ==
    ActiveOrder([side |-> "None", type |-> "None", size |-> 0, price |-> 0,
                 post_only |-> FALSE], "None", 0)

\* orders_match(server_order, order): same product, side, type and size.
orders_match(server_order, order) ==
    /\ server_order.side = order.side
    /\ server_order.type = order.type
    /\ server_order.size = order.size

\* Account._capture_balance_for_order: the (currency, amount) to capture.
CaptureCurrency(order) == IF order.side = "buy" THEN "EUR" ELSE "BTC"
CaptureAmount(order) ==
    IF order.side = "buy"
    THEN Quote(order.size * order.price)
         + (IF order.post_only THEN 0
            ELSE order.size * order.price * taker_fee(extype))
    ELSE order.size
InsufficientFundsNever(order) == FALSE

InsufficientFunds(order) ==
    virtual /\ CaptureAmount(order) > balance[CaptureCurrency(order)]
Captured(order) ==
    IF virtual
    THEN ActiveOrder(order, CaptureCurrency(order), CaptureAmount(order))
    ELSE ActiveOrder(order, "None", 0)

\* balance[active.currency] += active.captured: a KeyError when the
\* currency is None.
RefundRaises(active) == active.currency \notin Currencies
RefundNothing(bal, active) == bal
Refund(bal, active) ==
    [bal EXCEPT ![active.currency] = @ + active.captured]

\* Account._update_balance_from_order, the virtual balance after the order
\* is done: the true delta, floored at zero.
SettledBalanceNoFees(bal, pending, o) ==
    [c \in Currencies |->
        IF c = "BTC"
        THEN bal[c] + (IF o.side = "buy" THEN o.filled_size
                       ELSE o.size - o.filled_size)
        ELSE bal[c] + (IF o.side = "buy"
                       THEN pending.captured - o.executed_value
                       ELSE o.executed_value)]
SettledBalance(bal, pending, o) ==
    LET bc == IF o.side = "buy"
              THEN bal["BTC"] + o.filled_size
              ELSE bal["BTC"] + o.size - o.filled_size
        qc == IF o.side = "buy"
              THEN bal["EUR"]
                   + (pending.captured - o.executed_value - o.fill_fees)
              ELSE bal["EUR"] + o.executed_value - o.fill_fees
    IN  [c \in Currencies |-> IF c = "BTC" THEN Max(bc, 0) ELSE Max(qc, 0)]

\* The account fields the ledger operations work on.
Ledger(bal, pend, dn) ==
    [balance |-> bal, pending_orders |-> pend, done_orders |-> dn]
ThisLedger == Ledger(balance, pending_orders, done_orders)

update_balance_from_order(acc, id, o) ==
    IF id \notin DOMAIN acc.pending_orders \/ o.status # "done"
    THEN acc
    ELSE Ledger(IF virtual
                THEN SettledBalance(acc.balance, acc.pending_orders[id], o)
                ELSE acc.balance,
                Del(acc.pending_orders, id),
                acc.done_orders \cup {id})

\* What the state file holds after Account.save_state().
SavedStateBeforeAppend(bal, pend, unc, dn) ==
    [balance |-> bal, pending_orders |-> pend, unconfirmed_orders |-> <<>>,
     done_orders |-> dn]

SavedState(bal, pend, unc, dn) ==
    [balance |-> bal, pending_orders |-> pend, unconfirmed_orders |-> unc,
     done_orders |-> dn]

\* The exchange side of a cancel: an open order is closed as it stands.
Cancelled(o) == IF o.status = "pending" THEN [o EXCEPT !.status = "done"] ELSE o

\* A new order on the exchange.
Accepted(order) ==
    [side |-> order.side, type |-> order.type, size |-> order.size,
     price |-> order.price, post_only |-> order.post_only,
     status |-> "pending", filled_size |-> 0, executed_value |-> 0,
     fill_fees |-> 0, settled |-> FALSE]
\* n more units of the order trade at its price plus slip.
Filled(o, n, slip) ==
    LET value == Quote(n * (o.price + slip))
        fees == IF o.post_only THEN 0
                ELSE n * (o.price + slip) * taker_fee(extype)
        all == o.filled_size + n = o.size
    IN  [o EXCEPT !.filled_size = @ + n,
                  !.executed_value = @ + value,
                  !.fill_fees = @ + fees,
                  !.status = IF all THEN "done" ELSE @,
                  !.settled = all]
Slips(o) == IF o.type = "market" THEN {0, 1} ELSE {0}
NextId == Cardinality(DOMAIN server) + 1

InitialBalance == [c \in Currencies |-> IF c = "BTC" THEN 2 ELSE Quote(5)]
Init ==
    /\ op = NoOp
    /\ clock = 0
    /\ pair = NewPair
    /\ account_pairs = NoPairs
    /\ SaveAtRest
    /\ BatchAtRest
    /\ LockAtRest
    /\ virtual \in BOOLEAN
    /\ extype \in {"gdax", "bitfinex"}
    /\ balance = InitialBalance
    /\ pending_orders = EmptyMap
    /\ unconfirmed_orders = <<>>
    /\ done_orders = {}
    /\ saved = SavedState(InitialBalance, EmptyMap, <<>>, {})
    /\ server = EmptyMap
    /\ pcL = "running"
    /\ frame = NoFrame
    /\ requests = NoRequests

\* self.unconfirmed_orders.pop() (exchange.py:464, run.py:814): the list
\* without its last order
PoppedNothing(list) == list

Popped(list) == SubSeq(list, 1, Len(list) - 1)

otherVars == <<clock, pair, account_pairs, saveVars, lockVars, virtual, extype, batchVars>>

\* Account._order_action up to the exchange call (exchange.py:439-457):
\* capture, record the order as unconfirmed, save.
OrderActionInsufficient ==
    \E order \in Orders :
        /\ pcL = "running"
        /\ InsufficientFunds(order)
        \* finally: a left-over unconfirmed order is popped and refunded
        /\ IF unconfirmed_orders = <<>>
           THEN /\ UNCHANGED <<balance, unconfirmed_orders>>
                /\ saved' = SavedState(balance, pending_orders, <<>>,
                                      done_orders)
                /\ pcL' = pcL
           ELSE LET active == unconfirmed_orders[Len(unconfirmed_orders)]
                    rest == Popped(unconfirmed_orders)
                IN  /\ unconfirmed_orders' = rest
                    /\ IF RefundRaises(active)
                       THEN /\ UNCHANGED <<balance, saved>>
                            /\ pcL' = "halted"
                       ELSE /\ balance' = Refund(balance, active)
                            /\ saved' = SavedState(balance', pending_orders,
                                                  rest, done_orders)
                            /\ pcL' = pcL
        /\ op' = [name |-> "_order_action", outcome |-> "InsufficientFunds"]
        /\ UNCHANGED <<pending_orders, done_orders, server, frame, requests,
                       otherVars>>

OrderActionSubmit ==
    \E order \in Orders :
        /\ pcL = "running"
        /\ Cardinality(DOMAIN server) < MaxOrders
        /\ ~InsufficientFunds(order)
        /\ LET active == Captured(order)
           IN  /\ balance' = IF virtual
                             THEN [balance EXCEPT ![active.currency] =
                                        @ - active.captured]
                             ELSE balance
               /\ unconfirmed_orders' = <<active>>
               /\ saved' = SavedState(balance', pending_orders, <<active>>,
                                     done_orders)
        /\ frame' = [name |-> "_order_action", order |-> order,
                     entry_balance |-> balance]
        /\ pcL' = "submitting"
        /\ op' = [name |-> "_order_action", outcome |-> "sent"]
        /\ UNCHANGED <<pending_orders, done_orders, server, requests,
                       otherVars>>

\* The exchange call fails (an error reply or an exception) and the finally
\* block returns what was captured (exchange.py:457-473).  An exception may
\* hide that the exchange did take the order.
OrderActionFailed ==
    \E outcome \in {"error reply", "exception"}, taken \in BOOLEAN :
        /\ pcL = "submitting"
        /\ taken => outcome = "exception"
        /\ server' = IF taken
                     THEN Put(server, NextId, Accepted(frame.order))
                     ELSE server
        /\ LET active == unconfirmed_orders[Len(unconfirmed_orders)]
           IN  /\ unconfirmed_orders' =
                      Popped(unconfirmed_orders)
               /\ IF RefundRaises(active)
                  THEN /\ UNCHANGED <<balance, saved>>
                       /\ pcL' = "halted"
                  ELSE /\ balance' = Refund(balance, active)
                       /\ saved' = SavedState(balance', pending_orders,
                                             unconfirmed_orders',
                                             done_orders)
                       /\ pcL' = "running"
        /\ frame' = NoFrame
        /\ op' = [name |-> "_order_action", outcome |-> outcome,
                  captured |-> unconfirmed_orders[1].captured]
        /\ UNCHANGED <<pending_orders, done_orders, requests, otherVars>>

\* The exchange takes the order and replies with its state: the order moves
\* from the unconfirmed list to pending_orders (exchange.py:457-473).
OrderActionPlaced ==
    /\ pcL = "submitting"
    /\ \E fill \in {0, frame.order.size}, slip \in Slips(frame.order) :
            /\ fill = 0 => slip = 0
            /\ LET active == unconfirmed_orders[Len(unconfirmed_orders)]
                   o == IF fill = 0 THEN Accepted(frame.order)
                        ELSE Filled(Accepted(frame.order), fill, slip)
               IN  /\ server' = Put(server, NextId, o)
                   /\ pending_orders' = Put(pending_orders, NextId, active)
                   /\ unconfirmed_orders' =
                          Popped(unconfirmed_orders)
                   /\ saved' = SavedState(balance, pending_orders',
                                         unconfirmed_orders', done_orders)
            /\ pcL' = "running"
            /\ frame' = NoFrame
            /\ op' = [name |-> "_order_action", outcome |-> "placed"]
            /\ UNCHANGED <<balance, done_orders, requests, otherVars>>

\* The exchange trades n more units of an open order.
ServerFill ==
    \E id \in DOMAIN server :
        /\ pcL # "none"
        /\ server[id].status = "pending"
        /\ \E n \in 1..(server[id].size - server[id].filled_size),
              slip \in Slips(server[id]) :
               server' = [server EXCEPT ![id] = Filled(@, n, slip)]
        /\ op' = [name |-> "exchange fill"]
        /\ UNCHANGED <<balance, pending_orders, unconfirmed_orders,
                       done_orders, saved, pcL, frame, requests, otherVars>>

\* The dispatcher polls an order the account holds as pending with
\* Account.get_order (exchange.py:341-366) and saves the account when its
\* work on it ends (run.py:539-543).
GetOrder ==
    \E id \in DOMAIN pending_orders \cap DOMAIN server :
        /\ pcL = "running"
        /\ LET acc == update_balance_from_order(ThisLedger, id, server[id])
           IN  /\ balance' = acc.balance
               /\ pending_orders' = acc.pending_orders
               /\ done_orders' = acc.done_orders
               /\ saved' = SavedState(acc.balance, acc.pending_orders,
                                      unconfirmed_orders, acc.done_orders)
        /\ op' = [name |-> "get_order",
                  settled |-> id \notin DOMAIN pending_orders']
        /\ UNCHANGED <<unconfirmed_orders, server, pcL, frame, requests,
                       otherVars>>

\* Account.cancel_order (exchange.py:368-393), called by the dispatcher for
\* an order past its time to live, with the save of run.py:539-543.  reply "ok": the exchange
\* closes the order, and for an order held as pending wait_for_order polls
\* it with get_order.  reply "not found": retried until the time-out, None.
cancel_order(acc, srv, id, reply) ==
    IF reply = "ok"
    THEN [server |-> [srv EXCEPT ![id] = Cancelled(@)],
          ledger |-> update_balance_from_order(acc, id, Cancelled(srv[id]))]
    ELSE [server |-> srv, ledger |-> acc]

CancelOrder ==
    \E id \in DOMAIN pending_orders \cap DOMAIN server,
       reply \in {"ok", "not found"} :
        /\ pcL = "running"
        /\ LET r == cancel_order(ThisLedger, server, id, reply)
           IN  /\ server' = r.server
               /\ balance' = r.ledger.balance
               /\ pending_orders' = r.ledger.pending_orders
               /\ done_orders' = r.ledger.done_orders
               /\ saved' = SavedState(r.ledger.balance,
                                      r.ledger.pending_orders,
                                      unconfirmed_orders,
                                      r.ledger.done_orders)
        /\ op' = [name |-> "cancel_order",
                  settled |-> id \notin DOMAIN pending_orders']
        /\ UNCHANGED <<unconfirmed_orders, pcL, frame, requests, otherVars>>

\* The process stops and is started again: the account is what the state
\* file holds (run.py:760-767).  A submission in flight may or may not have
\* reached the exchange.
Restart ==
    \E taken \in BOOLEAN :
        /\ pcL \notin {"none", "startup"}
        /\ taken => pcL = "submitting"
        /\ server' = IF taken
                     THEN Put(server, NextId, Accepted(frame.order))
                     ELSE server
        /\ balance' = saved.balance
        /\ pending_orders' = saved.pending_orders
        /\ unconfirmed_orders' = saved.unconfirmed_orders
        /\ done_orders' = saved.done_orders
        /\ pcL' = "startup"
        /\ frame' = NoFrame
        /\ requests' = NoRequests
        /\ op' = [name |-> "restart"]
        /\ UNCHANGED <<saved, otherVars>>

\* run.py:795-800: the ids known before reconciliation; save.
KnownOrderIds ==
    /\ pcL = "startup"
    /\ frame' = [name |-> "reconcile",
                 known_order_ids |-> DOMAIN pending_orders \cup done_orders,
                 lost_order |-> NoActive, order_found |-> FALSE,
                 listers |-> <<>>, id |-> 0]
    /\ saved' = SavedState(balance, pending_orders, unconfirmed_orders,
                           done_orders)
    /\ pcL' = "reconcile"
    /\ op' = [name |-> "known_order_ids"]
    /\ UNCHANGED <<balance, pending_orders, unconfirmed_orders, done_orders,
                   server, requests, otherVars>>

\* run.py:812-818: the listers reconciliation will call for the account.
ListersAlways(unconfirmed) == <<"open", "closed">>
Listers(unconfirmed) ==
    IF unconfirmed = <<>> THEN <<>> ELSE <<"open", "closed">>

\* run.py:811-816 and, for an account with nothing unconfirmed, straight to
\* the save_state() of run.py:841.
Reconcile ==
    /\ pcL = "reconcile"
    /\ LET listers == Listers(unconfirmed_orders)
           lost == IF unconfirmed_orders = <<>> THEN NoActive
                   ELSE unconfirmed_orders[Len(unconfirmed_orders)]
       IN  IF listers = <<>>
           THEN /\ pcL' = "running"
                /\ frame' = NoFrame
                /\ saved' = SavedState(balance, pending_orders,
                                       unconfirmed_orders, done_orders)
                /\ UNCHANGED unconfirmed_orders
           ELSE /\ pcL' = "list"
                /\ frame' = [frame EXCEPT !.lost_order = lost,
                                          !.listers = listers]
                /\ unconfirmed_orders' =
                       Popped(unconfirmed_orders)
                /\ UNCHANGED saved
    /\ op' = [name |-> "reconcile",
              skipped |-> Listers(unconfirmed_orders) = <<>>]
    /\ UNCHANGED <<balance, pending_orders, done_orders, server, requests,
                   otherVars>>

\* Account.get_open_orders / get_closed_orders (exchange.py:251-265): the
\* ids the lister returns; nothing is asked of an exchange that is not
\* bitfinex.
Listed(lister) ==
    IF extype # "bitfinex" THEN {}
    ELSE { id \in DOMAIN server :
             server[id].status = (IF lister = "open" THEN "pending"
                                  ELSE "done") }
Candidates(lister) ==
    { id \in Listed(lister) :
        /\ id \notin frame.known_order_ids
        /\ orders_match(server[id], frame.lost_order.order) }
AfterLister == IF Len(frame.listers) > 1 THEN "list" ELSE "end"

\* run.py:819-832: list, and register the first match as pending.
ReconcileList ==
    /\ pcL = "list"
    /\ LET lister == Head(frame.listers)
       IN  /\ requests' = IF extype = "bitfinex"
                          THEN [requests EXCEPT !.listed = @ \cup {lister}]
                          ELSE requests
           /\ IF Candidates(lister) = {}
              THEN /\ pcL' = AfterLister
                   /\ frame' = [frame EXCEPT !.listers = Tail(@)]
                   /\ UNCHANGED pending_orders
              ELSE \E id \in Candidates(lister) :
                       /\ pending_orders' =
                              Put(pending_orders, id, frame.lost_order)
                       /\ frame' = [frame EXCEPT !.id = id]
                       /\ pcL' = "cancel"
           /\ op' = [name |-> "reconcile list", lister |-> lister]
    /\ UNCHANGED <<balance, unconfirmed_orders, done_orders, saved, server,
                   otherVars>>

\* A listing that fails is not a list of orders: OrderState(o) raises and
\* the process exits (exchange.py:254-257).
ReconcileListFails ==
    /\ pcL = "list"
    /\ extype = "bitfinex"
    /\ requests' = [requests EXCEPT !.listed = @ \cup {Head(frame.listers)}]
    /\ pcL' = "halted"
    /\ op' = [name |-> "reconcile list", lister |-> "failed"]
    /\ UNCHANGED <<balance, pending_orders, unconfirmed_orders, done_orders,
                   saved, server, frame, otherVars>>

\* run.py:833-835: cancel the registered order; the inner loop ends.
ReconcileCancel ==
    /\ pcL = "cancel"
    /\ \E reply \in {"ok", "not found", "error"} :
           /\ LET r == cancel_order(ThisLedger, server, frame.id, reply)
              IN  /\ server' = r.server
                  /\ balance' = r.ledger.balance
                  /\ pending_orders' = r.ledger.pending_orders
                  /\ done_orders' = r.ledger.done_orders
           /\ requests' = [requests EXCEPT !.cancelled = @ \cup {frame.id}]
           /\ IF reply = "error"
              THEN /\ pcL' = "halted"
                   /\ UNCHANGED frame
              ELSE /\ pcL' = AfterLister
                   /\ frame' = [frame EXCEPT !.order_found = TRUE,
                                             !.listers = Tail(@)]
           /\ op' = [name |-> "reconcile cancel", reply |-> reply,
                     settled |-> frame.id \notin DOMAIN pending_orders']
    /\ UNCHANGED <<unconfirmed_orders, saved, otherVars>>

\* run.py:837-841: refund the order that was not found; save.
ShouldRefund(order_found) == ~order_found

ReconcileEnd ==
    /\ pcL = "end"
    /\ IF ShouldRefund(frame.order_found)
       THEN IF RefundRaises(frame.lost_order)
            THEN /\ pcL' = "halted"
                 /\ UNCHANGED <<balance, saved, frame>>
            ELSE /\ balance' = Refund(balance, frame.lost_order)
                 /\ saved' = SavedState(balance', pending_orders,
                                        unconfirmed_orders, done_orders)
                 /\ pcL' = "running"
                 /\ frame' = NoFrame
       ELSE /\ saved' = SavedState(balance, pending_orders,
                                   unconfirmed_orders, done_orders)
            /\ pcL' = "running"
            /\ frame' = NoFrame
            /\ UNCHANGED balance
    /\ requests' = IF pcL' = "running" THEN NoRequests ELSE requests
    /\ op' = [name |-> "reconcile end", order_found |-> frame.order_found]
    /\ UNCHANGED <<pending_orders, unconfirmed_orders, done_orders, server,
                   otherVars>>

Next ==
    \/ OrderActionInsufficient
    \/ OrderActionSubmit
    \/ OrderActionFailed
    \/ OrderActionPlaced
    \/ ServerFill
    \/ GetOrder
    \/ CancelOrder
    \/ Restart
    \/ KnownOrderIds
    \/ Reconcile
    \/ ReconcileList
    \/ ReconcileListFails
    \/ ReconcileCancel
    \/ ReconcileEnd

Spec == Init /\ [][Next]_vars

(***************************************************************************)
(* Claims about the ledger and the reconciliation (checked under Spec)     *)
(***************************************************************************)

\* C1: for a virtual account, when Account.buy / Account.sell has captured
\* balance for the order and the exchange submission then fails (an error
\* reply or an exception), the tracked balance of every currency is, when
\* the call returns, what it was before the call.
C1_CaptureRefundRestores ==
    [][ (/\ virtual
         /\ pcL = "submitting"
         /\ op'.name = "_order_action"
         /\ op'.outcome \in {"error reply", "exception"})
        => balance' = frame.entry_balance ]_vars

\* A submission of a virtual account failed with an error reply after a
\* capture, and the call has returned.
C1_Witness ==
    /\ virtual
    /\ op.name = "_order_action"
    /\ op.outcome = "error reply"
    /\ op.captured > 0
    /\ pcL = "running"

\* The step observes the terminal state of the pending order id.
Settles(id) ==
    /\ op'.name \in {"get_order", "cancel_order", "reconcile cancel"}
    /\ id \in DOMAIN pending_orders
    /\ id \notin DOMAIN pending_orders'
\* The capture step of a submission debits exactly the amount it records.
CaptureDebits ==
    (op'.name = "_order_action" /\ op'.outcome = "sent")
    => LET active == unconfirmed_orders'[1]
       IN  balance' = [balance EXCEPT ![active.currency] =
                            @ - active.captured]

\* C2 as stated: for a virtual account the balance changes, from before the
\* capture to after the done state is first observed, by exactly: buy,
\* quote - (executed_value + fill_fees) and base + filled_size; sell,
\* base - filled_size and quote + (executed_value - fill_fees).  With the
\* capture debiting the recorded amount, the observing step must add
\* captured - executed_value - fill_fees (buy) or captured - filled_size
\* (sell) to the currency captured.
C2_Original ==
    [][ virtual =>
        /\ CaptureDebits
        /\ \A id \in DOMAIN pending_orders :
              Settles(id) =>
                LET a == pending_orders[id]
                    o == server'[id]
                IN  IF o.side = "buy"
                    THEN /\ balance'["EUR"] = balance["EUR"] + a.captured
                                - (o.executed_value + o.fill_fees)
                         /\ balance'["BTC"] = balance["BTC"] + o.filled_size
                    ELSE /\ balance'["BTC"] = balance["BTC"] + a.captured
                                - o.filled_size
                         /\ balance'["EUR"] = balance["EUR"]
                                + (o.executed_value - o.fill_fees) ]_vars

\* C2 amended: the same net change, except that a tracked balance the
\* settlement would make negative is set to zero.
C2_NetChangeFlooredAtZero ==
    [][ virtual =>
        /\ CaptureDebits
        /\ \A id \in DOMAIN pending_orders :
              Settles(id) =>
                LET a == pending_orders[id]
                    o == server'[id]
                IN  IF o.side = "buy"
                    THEN /\ balance'["EUR"] =
                                Max(0, balance["EUR"] + a.captured
                                       - (o.executed_value + o.fill_fees))
                         /\ balance'["BTC"] =
                                Max(0, balance["BTC"] + o.filled_size)
                    ELSE /\ balance'["BTC"] =
                                Max(0, balance["BTC"] + a.captured
                                       - o.filled_size)
                         /\ balance'["EUR"] =
                                Max(0, balance["EUR"]
                                       + (o.executed_value - o.fill_fees)) ]_vars

\* get_order has just observed the done state of a buy of a virtual account
\* that paid fees and cost more than was captured and left: the quote
\* balance is floored.
C2_Witness ==
    /\ virtual
    /\ op.name = "get_order" /\ op.settled
    /\ \E id \in done_orders :
          /\ server[id].side = "buy"
          /\ server[id].fill_fees > 0
          /\ server[id].filled_size > 0
    /\ balance["EUR"] = 0

\* The exchange holds an order that is not known as pending or done and
\* matches the order reconciliation is looking for.
HistoryMatches ==
    \E id \in DOMAIN server :
        /\ id \notin frame.known_order_ids
        /\ orders_match(server[id], frame.lost_order.order)

\* C5: when the exchange's open or closed orders hold an unknown order that
\* matches the unconfirmed order, reconciliation has registered that order
\* in pending_orders under its exchange id and issued a cancel for it by the
\* time it decides on the refund, and the refund is not applied.
C5_MatchRegisteredAndCancelled ==
    [][ (pcL = "end" /\ op'.name = "reconcile end" /\ HistoryMatches)
        => /\ frame.order_found
           /\ \E id \in requests.cancelled :
                 /\ id \notin frame.known_order_ids
                 /\ orders_match(server[id], frame.lost_order.order)
           /\ balance' = balance ]_vars

\* C6: when no server order matches, reconciliation ends with the captured
\* amount added back to the captured currency (nothing for an account that
\* captured nothing) and the unconfirmed list empty, in memory and in the
\* saved state, for every account and exchange type.
C6_NoMatchRefunds ==
    [][ (pcL = "end" /\ op'.name = "reconcile end" /\ ~HistoryMatches)
        => /\ pcL' = "running"
           /\ balance' = IF frame.lost_order.currency \in Currencies
                         THEN Refund(balance, frame.lost_order)
                         ELSE balance
           /\ unconfirmed_orders' = <<>>
           /\ saved'.unconfirmed_orders = <<>> ]_vars

\* C7: reconciliation of an account whose unconfirmed list is empty changes
\* neither balance nor pending_orders nor done_orders, sends no listing and
\* no cancel request, and is over.
C7_NothingUnconfirmedNoOp ==
    [][ (/\ pcL = "reconcile"
         /\ op'.name = "reconcile"
         /\ unconfirmed_orders = <<>>)
        => /\ UNCHANGED <<balance, pending_orders, done_orders,
                          unconfirmed_orders, requests>>
           /\ pcL' = "running" ]_vars

\* Reconciliation has just passed over an account that holds a pending
\* order and nothing unconfirmed.
C7_Witness ==
    /\ op.name = "reconcile" /\ op.skipped
    /\ unconfirmed_orders = <<>>
    /\ pending_orders # EmptyMap
    /\ requests = NoRequests
    /\ pcL = "running"

(***************************************************************************)
(* Claims about Pair.update (checked under SpecPair)                       *)
(***************************************************************************)
\* The fields of the pair that an accepted signal resets.
Core(p) ==
    <<p.rule, p.size, p.filled_size, p.executed_value, p.status, p.settled,
      p.expiration>>

\* What an accepted signal changes besides the recorded tweet.
Cycle(p) == <<Core(p), p.updated, p.errors, p.previous>>

IsUpdate(o) == o.name = "Pair.update"

\* C8: Pair.update with a signal whose id is less than or equal to the id
\* recorded in the pair for the same handle leaves every field of the pair
\* unchanged.
C8_StaleSignalIgnored ==
    [][ (/\ IsUpdate(op')
         /\ pair.twitter[op'.tweet.handle] # NoTweet
         /\ op'.tweet.id <= pair.twitter[op'.tweet.handle].id)
        => pair' = pair ]_vars

\* A call with an id below the recorded one was served, on a pair that an
\* earlier signal had put in progress.
C8_Witness ==
    /\ IsUpdate(op)
    /\ op.our_tweet # NoTweet
    /\ op.tweet.id < op.our_tweet.id
    /\ pair.status = "None"
    /\ pair.updated

\* An agreement handle whose recorded signal has the other direction, and
\* one with no recorded signal, once the new signal is recorded.
Disagrees(p, rule, h) ==
    p.twitter[h] # NoTweet /\ p.twitter[h].position # PositionOf(rule)

Missing(p, h) == p.twitter[h] = NoTweet

\* C9 as stated: for a rule with agreement handles, if any agreement handle
\* disagrees with the new signal's direction or has no recorded signal yet,
\* the pair's rule, size, filled_size, executed_value, status, settled and
\* expiration are left unchanged.
C9_Original ==
    [][ (/\ IsUpdate(op')
         /\ \E h \in op'.rule.agreement_handles :
                Disagrees(pair', op'.rule, h) \/ Missing(pair', h))
        => Core(pair') = Core(pair) ]_vars

\* C9 amended: for a rule with agreement handles, if any agreement handle has
\* a recorded signal of the other direction, the pair's rule, size,
\* filled_size, executed_value, status, settled and expiration are left
\* unchanged; a transition is accepted only when every agreement handle that
\* has a recorded signal agrees (a handle with no recorded signal is passed
\* over).
C9_AgreementAmongRecorded ==
    [][ (/\ IsUpdate(op')
         /\ \E h \in op'.rule.agreement_handles :
                Disagrees(pair', op'.rule, h))
        => Core(pair') = Core(pair) ]_vars

\* A fresh, unexpired signal was recorded while another agreement handle's
\* recorded signal has the other direction, on a pair in progress.
C9_Witness ==
    /\ IsUpdate(op)
    /\ op.rule.agreement_handles # {}
    /\ op.our_tweet.id < op.tweet.id
    /\ ~IsExpiredTweet(op.rule, op.tweet, clock)
    /\ \E h \in op.rule.agreement_handles : Disagrees(pair, op.rule, h)
    /\ pair.status = "None"
    /\ pair.rule # op.rule.id

\* C10 as stated: Pair.update advances the pair only if the new signal's id
\* is greater than the id of the last recorded signal of every handle in the
\* rule's agreement set, not only of the signal's own handle.
C10_Original ==
    [][ (IsUpdate(op') /\ Cycle(pair') # Cycle(pair))
        => \A h \in op'.rule.agreement_handles \cup {op'.tweet.handle} :
              op'.tweet.id > pair.twitter[h].id ]_vars

\* C10 amended: Pair.update advances the pair only if the new signal's id is
\* greater than the id of the last recorded signal of the signal's own
\* handle; the ids recorded for the other agreement handles are not compared.
C10_NewerThanOwnHandle ==
    [][ (IsUpdate(op') /\ Cycle(pair') # Cycle(pair))
        => op'.tweet.id > pair.twitter[op'.tweet.handle].id ]_vars

\* The pair advanced on a signal whose id is below the id recorded for
\* another agreement handle.
C10_Witness ==
    /\ IsUpdate(op)
    /\ op.our_tweet.id < op.tweet.id
    /\ ~IsExpiredTweet(op.rule, op.tweet, clock)
    /\ HaveAgreement(pair.twitter, op.rule, PositionOf(op.rule))
    /\ pair.rule = op.rule.id /\ pair.status = "None" /\ pair.updated
    /\ \E h \in op.rule.agreement_handles \ {op.tweet.handle} :
            pair.twitter[h].id > op.tweet.id

\* The call recorded in o passed the sequence check and, once its signal is
\* recorded in pair p, the agreement check.
PassedChecks(o, p) ==
    /\ IsUpdate(o)
    /\ o.tweet.id > o.our_tweet.id
    /\ \A h \in o.rule.agreement_handles : ~Disagrees(p, o.rule, h)
TooOld(o, now) == now > o.tweet.created_ts + o.rule.tweet_ttl

\* C11 as stated: when Pair.update receives a signal that passes the
\* sequence and agreement checks but is older than the rule's tweet_ttl, the
\* pair is done and not settled when the call returns, whatever its state
\* before, and nothing is queued for the signal (updated is not raised).
C11_Original ==
    [][ (PassedChecks(op', pair') /\ TooOld(op', clock))
        => /\ pair'.status = "done"
           /\ pair'.settled = FALSE
           /\ pair'.updated = pair.updated ]_vars

\* C11 amended: such a signal is recorded for its handle and otherwise
\* ignored: rule, size, filled_size, executed_value, status, settled,
\* expiration, updated, errors and previous are what they were before the
\* call, so no order is submitted for it.
C11_ExpiredSignalIgnored ==
    [][ (PassedChecks(op', pair') /\ TooOld(op', clock))
        => /\ Cycle(pair') = Cycle(pair)
           /\ pair'.twitter[op'.tweet.handle].id = op'.tweet.id ]_vars

\* A signal older than tweet_ttl passed both checks on a pair that an
\* earlier signal had put in progress; the pair is still in progress.
C11_Witness ==
    /\ PassedChecks(op, pair)
    /\ TooOld(op, clock)
    /\ pair.status = "None"
    /\ pair.rule # NoRule
    /\ pair.twitter[op.tweet.handle].id = op.tweet.id

\* C12: when Pair.update accepts a signal, afterwards size, filled_size and
\* executed_value are 0, errors is 0, settled is False, status is not
\* 'done', the rule is the new rule, expiration is now + rule.ttl, and
\* previous holds the rule, size, filled_size, executed_value and status of
\* the pair as they were before the call.
C12_AcceptanceResets ==
    [][ (PassedChecks(op', pair') /\ ~TooOld(op', clock))
        => /\ pair'.size = 0
           /\ pair'.filled_size = 0
           /\ pair'.executed_value = 0
           /\ pair'.errors = 0
           /\ pair'.settled = FALSE
           /\ pair'.status # "done"
           /\ pair'.rule = op'.rule.id
           /\ pair'.expiration = clock + op'.rule.ttl
           /\ pair'.updated
           /\ pair'.previous.isset
           /\ pair'.previous.rule = pair.rule
           /\ pair'.previous.size = pair.size
           /\ pair'.previous.filled_size = pair.filled_size
           /\ pair'.previous.executed_value = pair.executed_value
           /\ pair'.previous.status = pair.status ]_vars

\* A signal was accepted on a pair that had filled an order of an earlier
\* rule: the totals are reset and kept in previous.
C12_Witness ==
    /\ PassedChecks(op, pair)
    /\ ~TooOld(op, clock)
    /\ pair.size = 0 /\ pair.filled_size = 0 /\ pair.status = "None"
    /\ pair.previous.isset
    /\ pair.previous.filled_size = 1
    /\ pair.previous.rule # NoRule
    /\ pair.rule # pair.previous.rule

(***************************************************************************)
(* Order splitting (run.py:293-354, utils.py:22-31)                        *)
(*                                                                         *)
(* Sizes are counted in units of a fifth of the per-order ceiling, so that *)
(* 0.8 times the ceiling is a whole number of units.                       *)
(***************************************************************************)
MaxMainSize == 12
Ceiling == 5
SplitOrderSizes == {0, Ceiling}
max_pending_orders == 10

Min2(a, b) == IF a < b THEN a ELSE b

\* order_sizes[:truncate]
Truncated(sizes, truncate) == SubSeq(sizes, 1, Min2(Len(sizes), truncate))

RECURSIVE SumSeq(_)
SumSeq(sizes) == IF sizes = <<>> THEN 0 ELSE Head(sizes) + SumSeq(Tail(sizes))

\* ceil(S / C)
CeilDiv(s, c) == (s + c - 1) \div c

\* split_amount (utils.py:22-31): the lists the loop can build.  n is the
\* random draw between minval and maxval, rounded down to the unit; every
\* part is min(remaining, n).
RECURSIVE split_amount(_, _, _)
split_amount(remaining, minval, maxval) ==
    IF remaining <= 0 THEN {<<>>}
    ELSE UNION { LET part == Min2(remaining, n)
                 IN  { <<part>> \o rest :
                         rest \in split_amount(remaining - part, minval, maxval) }
                 : n \in minval..maxval }

\* max_size * 0.8 (run.py:295).  max_size is a Decimal (the annotation of
\* run.py:293; rule.py:16 and order.py:42 build it with D()), 0.8 is a float,
\* and Decimal refuses a float operand: the product raises TypeError before
\* split_amount is entered.
DecimalTimesFloat(max_size) == "TypeError"

\* split_order (run.py:293-305): the exception raised and the sizes of the
\* orders returned.
split_order(size, max_size, truncate) ==
    IF size > max_size
    THEN LET minval == DecimalTimesFloat(max_size)
         IN  IF minval = "TypeError"
             THEN { [raised |-> "TypeError", sizes |-> <<>>] }
             ELSE { [raised |-> "None", sizes |-> Truncated(order_sizes, truncate)] :
                      order_sizes \in split_amount(size, minval, max_size) }
    ELSE { [raised |-> "None", sizes |-> Truncated(<<size>>, truncate)] }

\* place_orders (run.py:237-268): every new order ends in pending, done or
\* error, as the exchange answers.
RECURSIVE place_orders(_, _)
place_orders(batch, replies) ==
    IF batch.new = <<>> THEN batch
    ELSE LET order == Head(batch.new)
             rest == [batch EXCEPT !.new = Tail(batch.new)]
             reply == Head(replies)
         IN  place_orders(
                 CASE reply = "pending" -> [rest EXCEPT !.pending = Append(@, order)]
                   [] reply = "done" -> [rest EXCEPT !.done = Append(@, order)]
                   [] OTHER -> [rest EXCEPT !.error = Append(@, order)],
                 Tail(replies))

PlaceReplies == {"pending", "done", "error"}

\* split_order called on its own.
SplitOrder ==
    \E size \in 1..MaxMainSize, max_size \in {Ceiling, MaxMainSize},
       truncate \in {1, 2, max_pending_orders} :
      \E result \in split_order(size, max_size, truncate) :
        /\ raised' = result.raised
        /\ orders' = [OrderBatch EXCEPT !.new = result.sizes]
        /\ op' = [name |-> "split_order", size |-> size, max_size |-> max_size,
                  truncate |-> truncate]
        /\ UNCHANGED <<pairVars, saveVars, lockVars, ledgerVars, pair_pending,
                       market_fallback, book, sent, hif>>

\* split_amount called on its own, with numbers for its bounds.
SplitAmount ==
    \E amount \in (Ceiling + 1)..MaxMainSize :
      \E parts \in split_amount(amount, Ceiling - 1, Ceiling) :
        /\ raised' = "None"
        /\ orders' = [OrderBatch EXCEPT !.new = parts]
        /\ op' = [name |-> "split_amount", size |-> amount,
                  max_size |-> Ceiling, truncate |-> Len(parts)]
        /\ UNCHANGED <<pairVars, saveVars, lockVars, ledgerVars, pair_pending,
                       market_fallback, book, sent, hif>>

\* split_and_place_limit_order (run.py:326-354), from the main order that
\* new_order built to the batch it returns.  place_limit_order calls it with
\* an empty pending list (run.py:421-427); the main order is a limit order
\* (run.py:556).
SplitAndPlaceLimitOrder ==
    \E size \in 0..MaxMainSize, split_order_size \in SplitOrderSizes,
       replies \in [1..1 -> PlaceReplies] :
      LET batch == [OrderBatch EXCEPT !.pending = pair_pending]
          max_order_size ==
              IF split_order_size > 0 THEN split_order_size ELSE size
          n_orders == max_pending_orders - Len(batch.pending)
      IN  /\ op' = [name |-> "split_and_place_limit_order", size |-> size,
                    max_size |-> max_order_size, truncate |-> n_orders]
          /\ IF size = 0 \/ Len(batch.pending) >= max_pending_orders
             THEN /\ raised' = "None"
                  /\ orders' = batch
             ELSE \E result \in split_order(size, max_order_size, n_orders) :
                    /\ raised' = result.raised
                    /\ orders' =
                         IF result.raised # "None" THEN batch
                         ELSE place_orders([batch EXCEPT !.new = result.sizes],
                                           replies)
          /\ UNCHANGED <<pairVars, saveVars, lockVars, ledgerVars, pair_pending,
                         market_fallback, book, sent, hif>>

InitSplit ==
    /\ op = NoOp
    /\ clock = 0
    /\ pair = NewPair
    /\ account_pairs = NoPairs
    /\ BatchAtRest
    /\ SaveAtRest
    /\ LockAtRest
    /\ LedgerAtRest

NextSplit == SplitOrder \/ SplitAmount \/ SplitAndPlaceLimitOrder

SpecSplit == InitSplit /\ [][NextSplit]_vars

\* C13: for a main order of size S above the ceiling C, the sizes of the
\* sub-orders that split_order returns, and that
\* split_and_place_limit_order submits, sum to exactly S.
C13_SubOrdersSumToSize ==
    /\ (op.name = "split_order" /\ op.size > op.max_size)
         => (raised = "None" /\ SumSeq(orders.new) = op.size)
    /\ (op.name = "split_and_place_limit_order" /\ op.size > op.max_size)
         => /\ raised = "None"
            /\ SumSeq(orders.pending \o orders.done \o orders.error) = op.size

\* C14: for a main order of size S above the ceiling C, every sub-order that
\* split_order returns has a size within [0.8 * C, C].
C14_SubOrdersWithinBand ==
    (op.name = "split_order" /\ op.size > op.max_size)
        => /\ raised = "None"
           /\ orders.new # <<>>
           /\ \A k \in 1..Len(orders.new) :
                /\ 5 * orders.new[k] >= 4 * op.max_size
                /\ orders.new[k] <= op.max_size

\* C15: for S > C split_order returns at least ceil(S / C) and at most
\* truncate sub-orders, and after split_and_place_limit_order the pair has
\* at most 10 pending orders.
C15_CountBounded ==
    /\ (op.name = "split_order" /\ op.size > op.max_size)
         => /\ raised = "None"
            /\ Len(orders.new) >= CeilDiv(op.size, op.max_size)
            /\ Len(orders.new) <= op.truncate
    /\ op.name = "split_and_place_limit_order"
         => Len(orders.pending) <= max_pending_orders

(***************************************************************************)
(* The dispatcher's work on one limit pair (run.py:271-477, 552-581)       *)
(*                                                                         *)
(* Sizes are counted in thousandths of a unit.                             *)
(***************************************************************************)
MaxClock == 4
MaxSignals == 2
MaxBook == 4
TemplateSize == 2000
FillStep == 1000

\* The rule of the pair (rule.py:8-30): a limit rule whose configuration
\* sets market_fallback; split_order_size keeps its default of 0.
EngineRule ==
    [id |-> "buy_solo", side |-> "buy", agreement_handles |-> {},
     tweet_ttl |-> 0, ttl |-> 2, order_ttl |-> 1, type |-> "limit",
     market_fallback |-> TRUE]

\* The exchange holds an order as open or as done; it settles every order
\* that it ends.
\* OrderState.__init__ (order.py:118-130) on a reply of the exchange: the
\* timestamp is the time of the construction.
OrderState(bk, id, now) ==
    [id |-> id, timestamp |-> now,
     status |-> IF bk[id].status = "open" THEN "open" ELSE "done",
     filled_size |-> bk[id].filled_size, executed_value |-> bk[id].filled_size,
     settled |-> bk[id].status = "done"]

\* The exchange takes a cancel request: an open order ends with what it
\* has filled.
Cancel(bk, id) ==
    IF bk[id].status = "open" THEN [bk EXCEPT ![id].status = "done"] ELSE bk

RECURSIVE CancelAll(_, _)
CancelAll(bk, states) ==
    IF states = <<>> THEN bk
    ELSE CancelAll(Cancel(bk, Head(states).id), Tail(states))

\* pair.update_balance over a list of order states
RECURSIVE Fold(_, _)
Fold(p, states) ==
    IF states = <<>> THEN p
    ELSE Fold(Pair_update_balance(p, Head(states)), Tail(states))

\* check_pending_orders (run.py:271-290): every pending order is replaced
\* by the state that account.get_order returns.
Polled(pending, bk, now) ==
    [k \in 1..Len(pending) |-> OrderState(bk, pending[k].id, now)]

\* check_expired_orders (run.py:308-323)
StillValid(order, ttl, now) == order.timestamp + ttl > now

\* new_order (run.py:205-234) with a template of a fixed size
\* (run.py:174-175, 192-193)
new_order_size == TemplateSize

\* The size handle_insufficient_funds asks for on attempt i, counted from 0
\* (run.py:604-605)
ReducedSizeOnce(orig_order_size, i) == (orig_order_size * 999) \div 1000

ReducedSize(orig_order_size, i) == (orig_order_size * (999 - i)) \div 1000

NextBookId(bk) == Cardinality(DOMAIN bk) + 1

\* check_done_orders (run.py:385-400): the done orders are folded into the
\* pair; each one that is not settled counts as an error of the pair.
MaxPairErrors == 3

check_done_orders(p, done) ==
    LET unsettled == SelectSeq(done, LAMBDA o : ~o.settled)
        folded == Fold(p, done)
        errors == p.errors + Len(unsettled)
    IN  [pair |-> [folded EXCEPT !.errors = errors],
         too_many_errors |-> unsettled # <<>> /\ errors > MaxPairErrors]

\* The answers of the exchange to a limit order (place_orders,
\* run.py:241-263).
LimitReplies == {"pending", "InsufficientFunds", "OrderSizeTooSmall", "OrderError"}

\* check_error_orders (run.py:357-382) on the one order that place_orders
\* put in orders.error: the err it returns.  An order that the exchange
\* refused has no id (run.py:370-373), so no cancel follows.
check_error_orders_none(reply) == "None"

check_error_orders(reply) ==
    IF reply \in {"InsufficientFunds", "OrderSizeTooSmall"} THEN reply
    ELSE "None"

\* place_limit_order (run.py:403-437).  elapsed is the time that passes
\* between the poll of the pending orders and the expiry test.
place_limit_order(p, pending, bk, now, elapsed, reply) ==
    LET polled == Polled(pending, bk, now)
        done == SelectSeq(polled, LAMBDA o : o.status = "done")
        open == SelectSeq(polled, LAMBDA o : o.status # "done")
        later == now + elapsed
        valid == SelectSeq(open,
                     LAMBDA o : StillValid(o, EngineRule.order_ttl, later))
        expired == SelectSeq(open,
                     LAMBDA o : ~StillValid(o, EngineRule.order_ttl, later))
        checked == check_done_orders(p, done)
        p1 == checked.pair
        bk1 == CancelAll(bk, expired)
        p2 == Fold(p1, Polled(expired, bk1, later))
        cancels == [k \in 1..Len(expired) |->
                      [req |-> "cancel", id |-> expired[k].id,
                       error |-> "OrderExpired", size |-> 0]]
        p3 == IF p2.size # 0 /\ p2.filled_size >= p2.size
              THEN [p2 EXCEPT !.status = "done", !.settled = TRUE]
              ELSE IF checked.too_many_errors
              THEN [p2 EXCEPT !.status = "done", !.settled = FALSE]
              ELSE p2
    IN  IF p3.status = "done" \/ valid # <<>>
        THEN [pair |-> p3, pending |-> valid, book |-> bk1, sent |-> cancels,
              now |-> later]
        ELSE \* split_and_place_limit_order with an order below the ceiling
            LET p4 == IF p3.size = 0 THEN [p3 EXCEPT !.size = new_order_size]
                      ELSE p3
                id == NextBookId(bk1)
                asked == Append(cancels, [req |-> "limit", id |-> id,
                                          error |-> IF reply = "pending"
                                                    THEN "None" ELSE reply,
                                          size |-> new_order_size])
            IN  IF reply = "pending"
                THEN LET bk2 == (id :> [status |-> "open", type |-> "limit",
                                        size |-> new_order_size,
                                        filled_size |-> 0,
                                        submitted |-> later]) @@ bk1
                     IN  [pair |-> p4, pending |-> <<OrderState(bk2, id, later)>>,
                          book |-> bk2, sent |-> asked, now |-> later]
                ELSE IF check_error_orders(reply) # "None"
                THEN [pair |-> [p4 EXCEPT !.status = "done", !.settled = FALSE],
                      pending |-> <<>>, book |-> bk1, sent |-> asked,
                      now |-> later]
                ELSE [pair |-> p4, pending |-> <<>>, book |-> bk1,
                      sent |-> asked, now |-> later]

\* run.py:449: the method of the account that place_orders calls for the
\* market order, chosen by the order's type.
market_action(order_type) == IF order_type = "buy" THEN "buy" ELSE "sell"

\* place_market_order (run.py:440-477).  order.type is 'market', so the
\* action of run.py:449 is account.sell; handle_insufficient_funds
\* resubmits with account.buy (run.py:609).
place_market_order(p, bk, asked, now, reply) ==
    LET id == NextBookId(bk)
        first == Append(asked, [req |-> "market", id |-> id, error |-> "None",
                                size |-> new_order_size,
                                via |-> market_action("market")])
        filled(size) == (id :> [status |-> "done", type |-> "market",
                                size |-> size, filled_size |-> size,
                                submitted |-> now]) @@ bk
    IN  CASE reply = "done" ->
               LET bk1 == filled(new_order_size)
               IN  [pair |-> [Pair_update_balance(p, OrderState(bk1, id, now))
                                EXCEPT !.settled = TRUE, !.status = "done"],
                    book |-> bk1, sent |-> first, raised |-> "None"]
          [] reply = "refused_then_done" ->
               \* handle_insufficient_funds returns the state of a resubmitted
               \* order (run.py:468-475)
               LET size == ReducedSize(new_order_size, 0)
                   bk1 == filled(size)
               IN  [pair |-> [Pair_update_balance(p, OrderState(bk1, id, now))
                                EXCEPT !.settled = TRUE, !.status = "done"],
                    book |-> bk1,
                    sent |-> Append(first, [req |-> "market", id |-> id,
                                            error |-> "None", size |-> size,
                                            via |-> "buy"]),
                    raised |-> "None"]
          [] reply = "pending_then_done" ->
               \* place_orders files the order under orders.pending;
               \* wait_for_order returns it done and settled, and only
               \* pair.settled is assigned (run.py:452-458)
               [pair |-> [p EXCEPT !.settled = TRUE, !.status = "done"],
                book |-> filled(new_order_size), sent |-> first,
                raised |-> "None"]
          [] OTHER ->
               \* handle_insufficient_funds returns None and run.py:471 reads
               \* order_state.id
               [pair |-> p, book |-> bk, sent |-> first,
                raised |-> "AttributeError"]

MarketReplies == {"done", "pending_then_done", "refused_then_done", "refused"}

\* run.py:565: the limit attempt has ended unsettled, or the validity window
\* of the pair is over.
FallbackDueWhenExpired(p, now) == now > p.expiration

FallbackDue(p, now) == p.status = "done" \/ now > p.expiration

\* update_pair_position after place_limit_order has returned r
\* (run.py:559-581), followed by the end of update_account_position
\* (run.py:496-505).
after_limit_order(r, fallback, mreply) ==
    LET after_limit == [status |-> r.pair.status, settled |-> r.pair.settled]
        unchanged == [pair |-> r.pair, pending |-> r.pending, book |-> r.book,
                      sent |-> r.sent, market_fallback |-> fallback,
                      raised |-> "None", folded |-> r.pair.filled_size,
                      after_limit |-> after_limit]
    IN  IF r.pair.settled THEN unchanged
        ELSE IF FallbackDue(r.pair, r.now)
        THEN LET bk1 == CancelAll(r.book, r.pending)
                 p1 == Fold(r.pair, Polled(r.pending, bk1, r.now))
                 cancels == [k \in 1..Len(r.pending) |->
                               [req |-> "cancel", id |-> r.pending[k].id,
                                error |-> "None", size |-> 0]]
                 asked == r.sent \o cancels
             IN  IF ~fallback
                 THEN [pair |-> p1, pending |-> <<>>, book |-> bk1,
                       sent |-> asked, market_fallback |-> fallback,
                       raised |-> "None", folded |-> p1.filled_size,
                       after_limit |-> after_limit]
                 ELSE LET m == place_market_order(p1, bk1, asked, r.now, mreply)
                      IN  [pair |-> m.pair, pending |-> <<>>, book |-> m.book,
                           sent |-> m.sent, market_fallback |-> FALSE,
                           raised |-> m.raised, folded |-> p1.filled_size,
                           after_limit |-> after_limit]
        ELSE unchanged

\* update_pair_position (run.py:552-581) for the limit pair
update_pair_position(p, pending, bk, fallback, now, elapsed, reply, mreply) ==
    CHOOSE result \in
        { after_limit_order(r, fallback, mreply) :
            r \in { place_limit_order(p, pending, bk, now, elapsed, reply) } } :
        TRUE

\* TradingStateMachine.step (run.py:632-641) on a tweet that Pair.update
\* accepts for the rule, once the pair's last cycle is over.
Signal ==
    /\ raised = "None"
    /\ pair.status = "done"
    /\ pair.twitter["h1"].id < MaxSignals
    /\ LET tweet == [id |-> pair.twitter["h1"].id + 1, handle |-> "h1",
                     created_ts |-> clock]
       IN  /\ pair' = Pair_update(pair, EngineRule, tweet, clock)
           /\ op' = [name |-> "Pair.update", id |-> tweet.id]
    /\ UNCHANGED <<clock, account_pairs, saveVars, lockVars, ledgerVars,
                       batchVars>>

\* One pass of the dispatcher over the pair.  A pass submits at most a limit
\* order and a market order.
UpdatePairPosition ==
    /\ raised = "None"
    /\ pair.status # "done"
    /\ Cardinality(DOMAIN book) + 2 <= MaxBook
    /\ \E elapsed \in 0..1, reply \in LimitReplies,
          mreply \in MarketReplies :
         /\ clock + elapsed <= MaxClock
         /\ \E r \in { update_pair_position(pair, pair_pending, book,
                                              market_fallback, clock, elapsed,
                                              reply, mreply) } :
                /\ pair' = r.pair
                /\ pair_pending' = r.pending
                /\ book' = r.book
                /\ sent' = r.sent
                /\ market_fallback' = r.market_fallback
                /\ raised' = r.raised
                /\ clock' = clock + elapsed
                /\ op' = [name |-> "update_pair_position",
                          folded |-> r.folded, elapsed |-> elapsed,
                          after_limit |-> r.after_limit]
    /\ UNCHANGED <<account_pairs, saveVars, lockVars, ledgerVars, orders, hif>>

\* The exchange fills part of an open order.
ExchangeFill ==
    \E id \in DOMAIN book :
        /\ book[id].status = "open"
        /\ LET f == book[id].filled_size + FillStep
           IN  book' = [book EXCEPT ![id].filled_size = f,
                                    ![id].status =
                                        IF f >= book[id].size THEN "done"
                                        ELSE "open"]
        /\ op' = [name |-> "fill", id |-> id]
        /\ UNCHANGED <<pairVars, saveVars, lockVars, ledgerVars, orders, raised,
                       pair_pending, market_fallback, sent, hif>>

EngineTick ==
    /\ clock < MaxClock
    /\ clock' = clock + 1
    /\ op' = [name |-> "tick"]
    /\ UNCHANGED <<pair, account_pairs, saveVars, lockVars, ledgerVars,
                   batchVars>>

InitEngine ==
    /\ op = NoOp
    /\ clock = 0
    /\ pair = NewPair
    /\ account_pairs = NoPairs
    /\ orders = OrderBatch
    /\ raised = "None"
    /\ pair_pending = <<>>
    /\ market_fallback = EngineRule.market_fallback
    /\ book = EmptyMap
    /\ sent = <<>>
    /\ hif = NoCall
    /\ SaveAtRest
    /\ LockAtRest
    /\ LedgerAtRest

NextEngine == Signal \/ UpdatePairPosition \/ ExchangeFill \/ EngineTick

SpecEngine == InitEngine /\ [][NextEngine]_vars

IsPass(o) == o.name = "update_pair_position"

PendingIds(pending) == {pending[k].id : k \in 1..Len(pending)}

\* The pending orders of the pair that the poll of the pass finds open.
OpenPending == {id \in PendingIds(pair_pending) : book[id].status = "open"}

Requests(reqs, kind) == {i \in 1..Len(reqs) : reqs[i].req = kind}

\* C16: when place_limit_order runs and a pending order is still open at
\* the exchange more than rule.order_ttl after its submission, the order is
\* marked OrderExpired, a cancel is issued for it and it leaves the pair's
\* pending list in that pass.
C16_OverdueOrderExpires ==
    [][ IsPass(op') =>
          \A id \in OpenPending :
              clock > book[id].submitted + EngineRule.order_ttl
                => /\ \E i \in Requests(sent', "cancel") :
                        sent'[i].id = id /\ sent'[i].error = "OrderExpired"
                   /\ id \notin PendingIds(pair_pending') ]_vars

\* The validity window of the pair is over when the pass reaches
\* run.py:565, and the poll found an order of the pair open.
ExpiredWithPending(o) ==
    /\ IsPass(o)
    /\ EngineRule.type = "limit" /\ EngineRule.market_fallback
    /\ OpenPending # {}
    /\ clock + o.elapsed > pair.expiration

\* The orders of the pair have not filled its size when the pending orders
\* are cancelled and folded.
Unfilled(o, p) == o.folded < p.size

\* The market orders the exchange took during the step.
NewMarketOrders ==
    {id \in DOMAIN book' \ DOMAIN book : book'[id].type = "market"}

RECURSIVE SumFilled(_, _)
SumFilled(bk, ids) ==
    IF ids = {} THEN 0
    ELSE LET id == CHOOSE x \in ids : TRUE
         IN  bk[id].filled_size + SumFilled(bk, ids \ {id})

\* C17: for a limit pair with market_fallback true whose validity window
\* has expired with an order still pending, the dispatcher first cancels
\* every pending order of the pair, folds their fills into the pair's totals
\* and empties the pending list, and only then submits a market order,
\* exactly one per accepted signal.
C17_CancelFoldThenOneMarketOrder ==
    [][ (ExpiredWithPending(op') /\ Unfilled(op', pair')) =>
          /\ \A id \in OpenPending :
                 \E i \in Requests(sent', "cancel") : sent'[i].id = id
          /\ op'.folded = pair.filled_size + SumFilled(book, PendingIds(pair_pending))
          /\ pair_pending' = <<>>
          /\ Requests(sent', "market") # {}
          /\ \A i \in Requests(sent', "cancel"), j \in Requests(sent', "market") :
                 i < j
          /\ Cardinality(NewMarketOrders) <= 1 ]_vars

\* C18: the market-fallback order is submitted for the residual size of the
\* pair: pair.size less pair.filled_size once the fills of the cancelled
\* orders are folded in.
C18_MarketOrderForResidual ==
    [][ (IsPass(op') /\ Requests(sent', "market") # {}) =>
          LET first == CHOOSE i \in Requests(sent', "market") :
                           \A j \in Requests(sent', "market") : i <= j
          IN  sent'[first].size = pair'.size - op'.folded ]_vars

(***************************************************************************)
(* handle_insufficient_funds (run.py:584-620), on an account that is not   *)
(* virtual: its balance is what the exchange reports (exchange.py:244-246) *)
(***************************************************************************)
MaxFunds == 2
Attempts == 5
OrderSizes == {1000, 1500, 2000}
quote_currency == "EUR"
BuyReplies == {"InsufficientFunds", "ok", "OrderError"}

\* run.py:598
BalanceFellNever(previous_balance, current_balance) == FALSE

BalanceFell(previous_balance, current_balance) ==
    previous_balance > current_balance

\* place_market_order calls handle_insufficient_funds on the order that
\* the exchange refused (run.py:465-467).
HifCall ==
    /\ hif.pc \in {"returned", "raised"}
    /\ \E size \in OrderSizes :
         /\ hif' = [name |-> "handle_insufficient_funds", pc |-> "loop",
                    i |-> 0, orig_order_size |-> size, size |-> size,
                    r |-> "None", asked |-> <<>>]
         /\ op' = [name |-> "hif_call", previous |-> 0, current |-> 0,
                   reply |-> "None", submitted |-> FALSE]
    /\ UNCHANGED <<pairVars, saveVars, lockVars, virtual, extype, balance,
                   pending_orders, unconfirmed_orders, done_orders, saved,
                   server, pcL, frame, requests, orders, raised, pair_pending,
                   market_fallback, book, sent>>

\* One turn of the for loop (run.py:590-616).  exchange_amount is the
\* balance that refresh_balance reads; reply is the outcome of account.buy.
HifIteration ==
    /\ hif # NoCall
    /\ hif.pc = "loop"
    /\ \E exchange_amount \in 0..MaxFunds, reply \in BuyReplies :
         LET previous_balance == balance[quote_currency]
             current_balance == exchange_amount
             size == ReducedSize(hif.orig_order_size, hif.i)
             asked == [hif EXCEPT !.size = size, !.asked = Append(@, size)]
         IN  /\ balance' = [balance EXCEPT ![quote_currency] = current_balance]
             /\ IF BalanceFell(previous_balance, current_balance)
                THEN /\ hif' = [hif EXCEPT !.pc = "returned"]
                     /\ op' = [name |-> "hif_iteration",
                               previous |-> previous_balance,
                               current |-> current_balance,
                               reply |-> "None", submitted |-> FALSE]
                ELSE /\ hif' =
                          CASE reply = "ok" ->
                                 [asked EXCEPT !.r = "OrderState",
                                               !.pc = "returned"]
                            [] reply = "InsufficientFunds" ->
                                 [asked EXCEPT !.i = @ + 1,
                                               !.pc = IF hif.i + 1 = Attempts
                                                      THEN "returned"
                                                      ELSE "loop"]
                            [] OTHER -> [asked EXCEPT !.pc = "raised"]
                     /\ op' = [name |-> "hif_iteration",
                               previous |-> previous_balance,
                               current |-> current_balance,
                               reply |-> reply, submitted |-> TRUE]
    /\ UNCHANGED <<pairVars, saveVars, lockVars, virtual, extype,
                   pending_orders, unconfirmed_orders, done_orders, saved,
                   server, pcL, frame, requests, orders, raised, pair_pending,
                   market_fallback, book, sent>>

InitFunds ==
    /\ op = NoOp
    /\ clock = 0
    /\ pair = NewPair
    /\ account_pairs = NoPairs
    /\ SaveAtRest
    /\ LockAtRest
    /\ BatchAtRest
    /\ virtual = FALSE
    /\ extype = "gdax"
    /\ balance \in [Currencies -> 0..MaxFunds]
    /\ pending_orders = EmptyMap
    /\ unconfirmed_orders = <<>>
    /\ done_orders = {}
    /\ saved = NoFrame
    /\ server = EmptyMap
    /\ pcL = "none"
    /\ frame = NoFrame
    /\ requests = NoRequests

NextFunds == HifCall \/ HifIteration

SpecFunds == InitFunds /\ [][NextFunds]_vars

IsIteration(o) == o.name = "hif_iteration"

\* C19 as stated: after the balance is read again, a balance that differs
\* from its value before has the order resubmitted at the same size, an
\* unchanged balance has it resubmitted at a reduced size.
C19_Original ==
    [][ IsIteration(op') =>
          /\ op'.previous # op'.current
               => (op'.submitted /\ hif'.size = hif.size)
          /\ op'.previous = op'.current
               => (op'.submitted /\ hif'.size < hif.orig_order_size) ]_vars

\* C19, amended: a balance that is lower after it is read again ends the
\* function with no resubmission; a balance that is unchanged or higher has
\* the order resubmitted through account.buy at the size of the attempt,
\* round_down(original size * (0.999 - 0.001 * i)), below the original size.
C19_LowerBalanceStopsElseReducedSize ==
    [][ IsIteration(op') =>
          /\ op'.current < op'.previous
               => /\ ~op'.submitted
                  /\ hif'.pc = "returned"
                  /\ hif'.asked = hif.asked /\ hif'.size = hif.size
                  /\ hif'.r = hif.r
          /\ op'.current >= op'.previous
               => /\ op'.submitted
                  /\ hif'.asked = Append(hif.asked, hif'.size)
                  /\ hif'.size < hif.orig_order_size
                  /\ 1000 * hif'.size <= hif.orig_order_size * (999 - hif.i)
                  /\ 1000 * hif'.size > hif.orig_order_size * (999 - hif.i) - 1000
        ]_vars

C19_Witness ==
    /\ IsIteration(op) /\ op.current < op.previous /\ ~op.submitted
    /\ hif.pc = "returned" /\ Len(hif.asked) = 1

\* C20: handle_insufficient_funds submits at most 5 times and then gives
\* up; attempt k asks for the original size less k decrements of a
\* thousandth of it (rounded down), so after two refusals the size has shrunk
\* exactly twice; the loop ends at the first submission the exchange takes.
C20_BoundedShrinkingRetries ==
    /\ [](hif # NoCall =>
            /\ Len(hif.asked) <= 5
            /\ \A k \in 1..Len(hif.asked) :
                 /\ 1000 * hif.asked[k] <= hif.orig_order_size * (1000 - k)
                 /\ 1000 * hif.asked[k] > hif.orig_order_size * (1000 - k) - 1000
                 /\ k > 1 => hif.asked[k] < hif.asked[k - 1]
            /\ (Len(hif.asked) = 5 /\ hif.r = "None" /\ hif.pc # "raised")
                 => hif.pc = "returned"
            /\ hif.r # "None" => hif.pc = "returned")
    /\ [][ (IsIteration(op') /\ op'.submitted) =>
             /\ hif.r = "None"
             /\ Len(hif'.asked) = hif.i + 1
             /\ op'.reply = "ok" => (hif'.r # "None" /\ hif'.pc = "returned") ]_vars

C20_Witness ==
    /\ hif # NoCall /\ hif.pc = "returned" /\ hif.r = "None"
    /\ Len(hif.asked) = 5
    /\ hif.orig_order_size = 2000
    /\ hif.asked = <<1998, 1996, 1994, 1992, 1990>>
    /\ IsIteration(op) /\ op.previous = op.current

\* The limit orders of the pass that the exchange refused for lack of funds
\* or for their size.
LimitRefused(reqs) ==
    {i \in Requests(reqs, "limit") :
        reqs[i].error \in {"InsufficientFunds", "OrderSizeTooSmall"}}

NewOrders(type) == {id \in DOMAIN book' \ DOMAIN book : book'[id].type = type}

TooSmall(reqs) ==
    {i \in Requests(reqs, "limit") : reqs[i].error = "OrderSizeTooSmall"}

C23_PlacementErrorsCounted ==
    [][ (IsPass(op') /\ \E i \in Requests(sent', "limit") :
                            sent'[i].error = "OrderError")
          => /\ pair'.errors = pair.errors + 1
             /\ pair'.errors >= 3
                  => op'.after_limit = [status |-> "done", settled |-> FALSE]
      ]_vars

(***************************************************************************)
(* new_order and Account.refresh_balance (run.py:133-234,                  *)
(* exchange.py:216-249).                                                   *)
(*                                                                         *)
(* Amounts are counted on grids ten times finer than the step round_down   *)
(* rounds to: a price in tenths of the last decimal the product is         *)
(* configured with, a size in tenths of the eighth decimal.  A quote       *)
(* amount is counted in thousandths of one unit of size times one unit of  *)
(* price, as CaptureAmount counts it.  The formulas of a template are      *)
(* evaluated outside the model: the evaluated price is an input, and the   *)
(* size formula is one of the substitutions calc_buy_size and              *)
(* calc_sell_size offer.                                                   *)
(***************************************************************************)
PriceStep == 10
SizeStep == 10
MaxShortPairs == 2
NoAmount == -1
EvaluatedPrices == {1000, 1007}
FixedSize == 20
BaseAmounts == {0, 25}
QuoteAmounts == {0, Quote(100000), Quote(100300)}
AmountsOf(symbol) == IF symbol = "BTC" THEN BaseAmounts ELSE QuoteAmounts

\* utils.round_down (utils.py:7-9), of an amount n on the fine grid to the
\* multiples of step
round_up(n, step) == ((n + step - 1) \div step) * step

round_down(n, step) == (n \div step) * step

\* The amount get_accounts compares with the exchange's
\* (exchange.py:244-246)
TrackedAmountExchange(bal, symbol, exchange_amount, virt) == exchange_amount

TrackedAmount(bal, symbol, exchange_amount, virt) ==
    LET amount == IF symbol \in DOMAIN bal THEN bal[symbol] ELSE 0
    IN  IF amount = NoAmount \/ ~virt THEN exchange_amount ELSE amount

\* Account.get_accounts (exchange.py:238-249)
get_accounts(bal, exchange_balance, virt) ==
    [symbol \in DOMAIN bal \cup DOMAIN exchange_balance |->
        IF symbol \in DOMAIN exchange_balance
        THEN Min2(TrackedAmount(bal, symbol, exchange_balance[symbol], virt),
                  exchange_balance[symbol])
        ELSE bal[symbol]]

\* OrderTemplate (order.py:133-135) with the size formula it carries
Templates ==
    { t \in [side : Sides, type : {"limit", "market"},
             size : {"fixed", "max_account_size", "split_size"},
             post_only : BOOLEAN] :
        /\ t.post_only => t.type = "limit"
        /\ t.size = "split_size" => t.side = "buy" }

\* calc_buy_size (run.py:133-185)
calc_buy_size(bal, template, price, n_short_pairs) ==
    CASE template.size = "split_size" ->
           IF n_short_pairs = 0
           THEN [raised |-> "DivisionByZero", size |-> 0]
           ELSE [raised |-> "None",
                 size |-> round_down(bal["EUR"] \div (Quote(n_short_pairs) * price),
                                     SizeStep)]
      [] template.size = "max_account_size" ->
           [raised |-> "None",
            size |-> round_down(bal["EUR"] \div Quote(price), SizeStep)]
      [] OTHER -> [raised |-> "None", size |-> round_down(FixedSize, SizeStep)]

\* calc_sell_size (run.py:188-202)
calc_sell_size(bal, template) ==
    IF template.size = "max_account_size"
    THEN [raised |-> "None", size |-> round_down(bal["BTC"], SizeStep)]
    ELSE [raised |-> "None", size |-> round_down(FixedSize, SizeStep)]

\* new_order (run.py:205-234) once the balance is refreshed
new_order(bal, template, price, n_short_pairs) ==
    LET sized == IF template.side = "buy"
                 THEN calc_buy_size(bal, template, price, n_short_pairs)
                 ELSE calc_sell_size(bal, template)
    IN  [raised |-> sized.raised,
         order |-> [side |-> template.side, type |-> template.type,
                    size |-> sized.size,
                    price |-> round_down(price, PriceStep),
                    post_only |-> template.post_only]]

\* Account.refresh_balance (exchange.py:216-233): the exchange reports
\* the currencies of exchange_balance.
RefreshBalance ==
    /\ \E reported \in SUBSET Currencies \ {{}} :
         \E exchange_balance \in [reported -> BaseAmounts \cup QuoteAmounts] :
            /\ \A symbol \in reported :
                 exchange_balance[symbol] \in AmountsOf(symbol)
            /\ balance' = get_accounts(balance, exchange_balance, virtual)
            /\ op' = [name |-> "refresh_balance", before |-> balance,
                      exchange_balance |-> exchange_balance]
    /\ UNCHANGED <<pairVars, saveVars, lockVars, virtual, extype,
                   pending_orders, unconfirmed_orders, done_orders, saved,
                   server, pcL, frame, requests, batchVars>>

\* new_order (run.py:205-234): the exchange reports the currencies of the
\* pair (exchange.py:76-83), the template's price formula evaluates to
\* price.
NewOrder ==
    /\ \E template \in Templates, price \in EvaluatedPrices,
          exchange_balance \in [Currencies -> BaseAmounts \cup QuoteAmounts],
          n_short_pairs \in 0..MaxShortPairs :
         /\ \A symbol \in Currencies :
              exchange_balance[symbol] \in AmountsOf(symbol)
         /\ template.size # "split_size" => n_short_pairs = 1
         /\ \E bal \in { get_accounts(balance, exchange_balance, virtual) } :
              \E built \in { new_order(bal, template, price, n_short_pairs) } :
                 /\ balance' = bal
                 /\ op' = [name |-> "new_order",
                           exchange_balance |-> exchange_balance,
                           template |-> template, price |-> price,
                           raised |-> built.raised, order |-> built.order]
    /\ UNCHANGED <<pairVars, saveVars, lockVars, virtual, extype,
                   pending_orders, unconfirmed_orders, done_orders, saved,
                   server, pcL, frame, requests, batchVars>>

InitBuild ==
    /\ op = NoOp
    /\ clock = 0
    /\ pair = NewPair
    /\ account_pairs = NoPairs
    /\ SaveAtRest
    /\ LockAtRest
    /\ BatchAtRest
    /\ virtual \in BOOLEAN
    /\ extype = "gdax"
    /\ \E known \in SUBSET Currencies :
         /\ balance \in [known -> BaseAmounts \cup QuoteAmounts \cup {NoAmount}]
         /\ \A symbol \in known :
              balance[symbol] \in AmountsOf(symbol) \cup {NoAmount}
    /\ pending_orders = EmptyMap
    /\ unconfirmed_orders = <<>>
    /\ done_orders = {}
    /\ saved = NoFrame
    /\ server = EmptyMap
    /\ pcL = "none"
    /\ frame = NoFrame
    /\ requests = NoRequests

NextBuild == RefreshBalance \/ NewOrder

SpecBuild == InitBuild /\ [][NextBuild]_vars

Built(o) == o.name = "new_order" /\ o.raised = "None"

C25_AllQuoteBuyIsCovered ==
    ( /\ Built(op) /\ op.template.side = "buy" /\ ~op.template.post_only
      /\ op.template.size = "max_account_size" )
        => /\ CaptureAmount(op.order) <= balance["EUR"]
           /\ ~InsufficientFunds(op.order)

IsRefresh(o) == o.name \in {"refresh_balance", "new_order"}

\* C26: a refresh of a virtual account leaves, for every currency the
\* exchange reports and the account tracks with an amount, the lower of the
\* amount tracked before and the amount the exchange reports; no tracked
\* amount grows.
C26_VirtualRefreshTakesTheLower ==
    [][ (IsRefresh(op') /\ virtual) =>
          \A symbol \in DOMAIN op'.exchange_balance \cap DOMAIN balance :
             balance[symbol] # NoAmount =>
                /\ balance'[symbol] <= balance[symbol]
                /\ balance'[symbol] <= op'.exchange_balance[symbol]
                /\ balance'[symbol] \in {balance[symbol],
                                         op'.exchange_balance[symbol]} ]_vars

C26_Witness ==
    /\ op.name = "refresh_balance" /\ virtual
    /\ "EUR" \in DOMAIN op.before /\ "EUR" \in DOMAIN op.exchange_balance
    /\ op.before["EUR"] = Quote(100000)
    /\ op.exchange_balance["EUR"] = Quote(100300)
    /\ balance["EUR"] = Quote(100000)

(***************************************************************************)
(* TradingStateMachine._update_pairs (run.py:643-657) on one account that  *)
(* trades one product.  account_pairs maps a key to the Pair stored under  *)
(* it, with the pair's pending orders.                                     *)
(***************************************************************************)
product_id == "BTC-EUR"
MaxPending == 1

\* Account.rules: two agreement rules, and a rule whose id is the product.
account_rules ==
    << [id |-> "buy_agree", side |-> "buy", agreement_handles |-> {"h1", "h2"},
        tweet_ttl |-> 0, ttl |-> 1],
       [id |-> "sell_agree", side |-> "sell",
        agreement_handles |-> {"h1", "h2"}, tweet_ttl |-> 0, ttl |-> 1],
       [id |-> product_id, side |-> "buy", agreement_handles |-> {},
        tweet_ttl |-> 0, ttl |-> 1] >>

\* Pair(product_id) (exchange.py:113-129)
StoredPair(p, pending) == [pair |-> p, pending_orders |-> pending]

\* self.account.pairs.get(rule.id) (run.py:653)
pairs_get(prs, key) ==
    IF key \in DOMAIN prs THEN [isnone |-> FALSE, pair |-> prs[key]]
    ELSE [isnone |-> TRUE, pair |-> StoredPair(NewPair, <<>>)]

\* The body of the for loop for a relevant rule (run.py:653-657)
update_pair(prs, rule, tweet, now) ==
    LET found == pairs_get(prs, rule.id)
        p == IF found.isnone THEN StoredPair(NewPair, <<>>) ELSE found.pair
        updated == [p EXCEPT !.pair = Pair_update(p.pair, rule, tweet, now)]
    IN  Put(prs, product_id, updated)

\* _update_pairs (run.py:643-657): the rules are taken in order, relevant
\* holds the positions of the rules the tweet is relevant to.
RECURSIVE update_pairs(_, _, _, _, _)
update_pairs(prs, tweet, relevant, now, k) ==
    IF k > Len(account_rules) THEN prs
    ELSE update_pairs(IF k \in relevant
                      THEN update_pair(prs, account_rules[k], tweet, now)
                      ELSE prs,
                      tweet, relevant, now, k + 1)

UpdatePairs ==
    /\ \E tweet \in Tweets(clock), relevant \in SUBSET (1..Len(account_rules)) :
         /\ account_pairs' = update_pairs(account_pairs, tweet, relevant,
                                          clock, 1)
         /\ op' = [name |-> "_update_pairs", tweet |-> tweet,
                   relevant |-> relevant]
    /\ UNCHANGED <<clock, pair, saveVars, lockVars, ledgerVars, batchVars>>

\* The exchange id of the next order: the first the registry does not hold.
NewOrderId ==
    CHOOSE id \in 1..(MaxPending + 2) :
        /\ id \notin DOMAIN pending_orders
        /\ \A j \in 1..(id - 1) : j \in DOMAIN pending_orders

\* place_limit_order (run.py:403-437) leaves the orders it holds open at
\* the exchange in pair.pending_orders; _order_action has registered each
\* in account.pending_orders under its exchange id (exchange.py:461-467).
PlaceLimitOrder ==
    /\ product_id \in DOMAIN account_pairs
    /\ account_pairs[product_id].pair.status # "done"
    /\ Len(account_pairs[product_id].pending_orders) < MaxPending
    /\ Cardinality(DOMAIN pending_orders) <= MaxPending
    /\ account_pairs' =
           [account_pairs EXCEPT
              ![product_id].pending_orders = Append(@, NewOrderId)]
    /\ pending_orders' = Put(pending_orders, NewOrderId, NoActive)
    /\ op' = [name |-> "place_limit_order"]
    /\ UNCHANGED <<clock, pair, saveVars, lockVars, batchVars, virtual, extype,
                   balance, unconfirmed_orders, done_orders, saved, server,
                   pcL, frame, requests>>

\* check_pending_orders (run.py:271-290) finds the first pending order of
\* the stored pair done: get_order moves it from account.pending_orders to
\* done_orders (exchange.py:301-306) and the pair's list loses it.
OrderDone ==
    /\ product_id \in DOMAIN account_pairs
    /\ account_pairs[product_id].pending_orders # <<>>
    /\ LET id == Head(account_pairs[product_id].pending_orders)
       IN  /\ account_pairs' =
                  [account_pairs EXCEPT ![product_id].pending_orders = Tail(@)]
           /\ pending_orders' = Del(pending_orders, id)
           /\ done_orders' = done_orders \cup {id}
    /\ op' = [name |-> "check_pending_orders"]
    /\ UNCHANGED <<clock, pair, saveVars, lockVars, batchVars, virtual, extype,
                   balance, unconfirmed_orders, saved, server, pcL, frame,
                   requests>>

MachineTick ==
    /\ clock < MaxTime
    /\ clock' = clock + 1
    /\ op' = [name |-> "tick"]
    /\ UNCHANGED <<pair, account_pairs, saveVars, lockVars, ledgerVars,
                   batchVars>>

InitMachine ==
    /\ op = NoOp
    /\ clock = 0
    /\ pair = NewPair
    /\ account_pairs = NoPairs
    /\ SaveAtRest
    /\ BatchAtRest
    /\ LockAtRest
    /\ LedgerAtRest

NextMachine == UpdatePairs \/ PlaceLimitOrder \/ OrderDone \/ MachineTick

SpecMachine == InitMachine /\ [][NextMachine]_vars

\* C27: a signal that is relevant to one rule, for a product that has a
\* Pair in the account's map, goes to that Pair: the signals it has recorded
\* for the other handles and its pending orders are those of the Pair that
\* was in the map; a Pair without history is stored only when the map had
\* none.
C27_ExistingPairReceivesSignal ==
    [][ ( /\ op'.name = "_update_pairs"
          /\ Cardinality(op'.relevant) = 1
          /\ product_id \in DOMAIN account_pairs )
        => /\ account_pairs'[product_id].pending_orders
                = account_pairs[product_id].pending_orders
           /\ \A h \in Handles \ {op'.tweet.handle} :
                account_pairs'[product_id].pair.twitter[h]
                    = account_pairs[product_id].pair.twitter[h] ]_vars

(***************************************************************************)
(* The two threads on accounts of the same and of different exchanges      *)
(* (SpecLock).                                                             *)
(***************************************************************************)
\* The foreground loop stands before `with account.exchange.lock` for
\* account i (run.py:712, 718).
MainWaitsFor(i) ==
    started /\ curMain = i /\ pcMain \in {"trade_lock", "status_lock"}

\* The dispatcher is inside update_account_position for account i
\* (run.py:533-547).
DispWorksOn(i) == started /\ curDisp = i /\ pcDisp = "update_body"

\* C28 as stated: while the dispatcher works on an account, the
\* foreground loop finds the lock free for any other account, whatever the
\* exchanges of the two.
C28_Original ==
    \A a, b \in AccountIds :
        (a # b /\ DispWorksOn(b) /\ MainWaitsFor(a))
            => lock[exchangeOf[a]] = "free"

\* C28, amended: while the dispatcher works on an account, the foreground
\* loop finds the lock free for any account of another exchange; for an
\* account of the same exchange the lock is the one the dispatcher holds.
C28_OtherExchangeNeverBlocked ==
    \A a, b \in AccountIds :
        (a # b /\ DispWorksOn(b) /\ MainWaitsFor(a))
            => /\ exchangeOf[a] # exchangeOf[b]
                    => lock[exchangeOf[a]] = "free"
               /\ exchangeOf[a] = exchangeOf[b]
                    => lock[exchangeOf[a]] = "disp"

C28_Witness ==
    /\ DispWorksOn(2) /\ MainWaitsFor(1)
    /\ exchangeOf[1] # exchangeOf[2]
    /\ lock[exchangeOf[1]] = "free" /\ lock[exchangeOf[2]] = "disp"

(***************************************************************************)
(* The work queue under fair scheduling.  Each thread that can go on does  *)
(* go on: the foreground loop sleeps a minute between rounds and the       *)
(* dispatcher twenty seconds (run.py:698, 726, 549), so a thread that      *)
(* waits for a lock finds it free again and again, and takes it.           *)
(***************************************************************************)
MainNext ==
    \/ MainKnownLock \/ MainKnownBody
    \/ MainReconcileCheck \/ MainReconcileLock \/ MainReconcileBody
    \/ MainStartThread \/ MainGetTweets
    \/ MainTradeLock \/ MainTradeBody
    \/ MainStatusCheck \/ MainStatusLock \/ MainStatusBody

\* The queue holds at most an item for each account when a round of the
\* foreground loop ends, and the loop then sleeps: the dispatcher, whose
\* q.get does not wait, takes the last item and then meets the empty queue
\* and leaves its inner loop.
DispDrain == DispGet /\ queue' = <<>>

SpecLockFair ==
    /\ SpecLock
    /\ SF_vars(MainNext)
    /\ SF_vars(DispGet) /\ SF_vars(DispDrain) /\ SF_vars(DispEmpty)
    /\ SF_vars(DispUpdateLock) /\ SF_vars(DispUpdateBody)

\* The item of account i waits on the queue.
InQueue(i) == \E k \in 1..Len(queue) : queue[k] = i

\* update_account_position has run for account i under its lock
\* (run.py:533-538).
Worked(i) == op.name = "update_account_position" /\ op.account = i

\* C29: every item the foreground loop puts on the queue is in time taken
\* by the dispatcher and worked on under the account's lock, whatever the
\* exchange answers.
C29_QueuedItemEventuallyWorked ==
    \A i \in AccountIds : InQueue(i) ~> Worked(i)

(***************************************************************************)
(* The unconfirmed order of an account (checked under Spec)                *)
(***************************************************************************)
\* C30 as stated: the list of unconfirmed orders holds at most one order,
\* and none unless a call of Account.buy or Account.sell is under way.
C30_Original ==
    /\ Len(unconfirmed_orders) <= 1
    /\ pcL # "submitting" => unconfirmed_orders = <<>>

\* C30, amended: the list of unconfirmed orders holds at most one order;
\* it holds none unless a call of Account.buy or Account.sell is under way
\* or the process has restarted from a state that was saved during such a
\* call and the startup reconciliation has not yet popped the order.
C30_OneUnconfirmedUntilReconciled ==
    /\ Len(unconfirmed_orders) <= 1
    /\ pcL \notin {"submitting", "startup", "reconcile"}
         => unconfirmed_orders = <<>>
    /\ (pcL \in {"startup", "reconcile"} /\ unconfirmed_orders # <<>>)
         => unconfirmed_orders = saved.unconfirmed_orders

C30_Witness ==
    /\ pcL = "reconcile" /\ op.name = "known_order_ids"
    /\ Len(unconfirmed_orders) = 1

(***************************************************************************)
(* Claims on the dispatcher's account of fills, expiry and the fallback    *)
(***************************************************************************)
\* The orders of the pair that the pass stops tracking: pending before the
\* pass, or submitted by it, and no longer in the pending list after it.
LeftTracking ==
    (PendingIds(pair_pending) \cup (DOMAIN book' \ DOMAIN book))
        \ PendingIds(pair_pending')

\* C31: every order submitted for the pair's current cycle that reaches a
\* terminal state has its filled_size added to the pair's totals exactly
\* once: the totals grow in a pass by the fills of the orders that end in
\* that pass, a market order first reported pending included.
C31_TerminalOrderFoldedOnce ==
    [][ (IsPass(op') /\ raised' = "None") =>
          /\ \A id \in LeftTracking : book'[id].status = "done"
          /\ pair'.filled_size
                = pair.filled_size + SumFilled(book', LeftTracking) ]_vars

\* The same account for the passes that submit no market order.
C31_LimitOrdersFoldedOnce ==
    [][ (IsPass(op') /\ raised' = "None" /\ NewMarketOrders = {}) =>
          /\ \A id \in LeftTracking : book'[id].status = "done"
          /\ pair'.filled_size
                = pair.filled_size + SumFilled(book', LeftTracking) ]_vars

C33_CapturedAmountReleasedOnce ==
    [][ /\ (op'.name = "reconcile list" /\ pending_orders' # pending_orders)
            => /\ ~frame.order_found
               /\ frame'.id \notin done_orders
        /\ (op'.name = "reconcile cancel" /\ op'.settled)
            => frame.id \notin done_orders
        /\ (op'.name = "reconcile end" /\ balance' # balance)
            => ~frame.order_found ]_vars

\* C34: in a pass that begins after the pair's expiration time, the
\* dispatcher submits no limit order for the pair, whether or not the rule
\* allows market fallback.
C34_NoLimitOrderAfterExpiration ==
    [][ (IsPass(op') /\ clock > pair.expiration) =>
          Requests(sent', "limit") = {} ]_vars

(***************************************************************************)
(* The dispatcher under fair scheduling: while a pair is active the worker *)
(* makes a pass over it every 20 seconds (run.py:519-549), and time passes.*)
(***************************************************************************)
SpecEngineFair ==
    /\ SpecEngine
    /\ WF_vars(UpdatePairPosition)
    /\ WF_vars(EngineTick)

\* The pair is in the dispatcher's active set: update_account_position
\* removes it once its status is 'done' (run.py:497-505).
Active == pair.status # "done"

\* The states in which the bounds of the model, not the program, stop the
\* pair: the book is full, or the clock has stopped before the expiration.
BeyondBounds ==
    \/ Cardinality(DOMAIN book) + 2 > MaxBook
    \/ clock = MaxClock /\ pair.expiration >= MaxClock

\* C35: every pair that accepts a signal eventually reaches status 'done'
\* and leaves the dispatcher's active set, while every exchange call
\* returns, for rules with and without market fallback.
C35_ActivePairEventuallyDone ==
    Active ~> (~Active \/ BeyondBounds)

\* The pair is past its expiration with nothing pending, and the rule's
\* market_fallback flag is off.
ExpiredWithoutFallback ==
    /\ Active
    /\ ~market_fallback
    /\ clock > pair.expiration
    /\ pair_pending = <<>>

\* Such a pair stays as it is for as long as the exchange takes its limit
\* orders: every pass submits one and cancels it, and the status is never
\* set.  Only a refusal for funds or size ends the cycle.
ExpiredWithoutFallbackStaysActive ==
    [][ (/\ ExpiredWithoutFallback
         /\ \A i \in Requests(sent', "limit") :
                sent'[i].error \notin {"InsufficientFunds", "OrderSizeTooSmall"})
        => ExpiredWithoutFallback' ]_vars

\* C36: the market order that place_market_order submits goes through the
\* method of the account that has the side of the pair's rule template:
\* Account.buy for a buy rule, Account.sell for a sell rule.
C36_MarketOrderHasRuleSide ==
    [][ IsPass(op') =>
          \A i \in Requests(sent', "market") :
              sent'[i].via = EngineRule.side ]_vars

\* The limit cycle of the pair ends unsettled in the pass: the limit attempt
\* is done without being settled, or the validity window is over.
EndsUnsettled(o) ==
    /\ IsPass(o)
    /\ ~o.after_limit.settled
    /\ \/ o.after_limit.status = "done"
       \/ clock + o.elapsed > pair.expiration

\* C37: for a rule configured with market_fallback true, every accepted
\* signal whose limit cycle ends unsettled gets a market order in the pass
\* that ends it, the second and later signals of the rule included.
C37_FallbackForEverySignal ==
    [][ (EngineRule.market_fallback /\ EndsUnsettled(op')) =>
          Requests(sent', "market") # {} ]_vars

\* The same for the first signal that the rule accepts.
C37_FallbackForFirstSignal ==
    [][ (/\ EngineRule.market_fallback
         /\ pair.twitter["h1"].id = 1
         /\ EndsUnsettled(op')) =>
          Requests(sent', "market") # {} ]_vars

(***************************************************************************)
(* Claims on the account's registries (SpecMachine, Spec)                  *)
(***************************************************************************)
\* The ids in the pending list of the Pair stored for the product.
StoredPending ==
    IF product_id \in DOMAIN account_pairs
    THEN { account_pairs[product_id].pending_orders[k] :
             k \in 1..Len(account_pairs[product_id].pending_orders) }
    ELSE {}

\* C38: whenever no thread holds the account's lock, every order id in the
\* account's pending_orders registry is also in the pending_orders list of
\* the Pair stored in account.pairs for the order's product.
C38_RegisteredOrderHasPair ==
    DOMAIN pending_orders \subseteq StoredPending

\* C39: for a virtual account the settlement of an order is applied to the
\* tracked balance at most once per order id, however often get_order,
\* wait_for_order and cancel_order observe the order as done, and no order
\* id is in pending_orders and in done_orders at the same time.
C39_SettledOncePerOrderId ==
    /\ [](virtual => DOMAIN pending_orders \cap done_orders = {})
    /\ [][ virtual =>
             \A id \in DOMAIN pending_orders :
                 Settles(id) => id \notin done_orders ]_vars

\* The same for the steps of the running account, from a state that has no
\* id in both registries: the submissions, the polls and the cancels keep
\* the registries apart; only the startup reconciliation does not.
C39_SettledOnceWhileRunning ==
    [][ (/\ virtual
         /\ pcL \in {"running", "submitting"}
         /\ DOMAIN pending_orders \cap done_orders = {}) =>
          /\ DOMAIN pending_orders' \cap done_orders' = {}
          /\ \A id \in DOMAIN pending_orders :
                 Settles(id) => id \notin done_orders ]_vars

(***************************************************************************)
(* The ledger with the refresh of the balance (exchange.py:216-249): the   *)
(* account of Spec, whose balance Account.refresh_balance also lowers to   *)
(* what the exchange reports.                                              *)
(***************************************************************************)
\* What the exchange reports for the currencies: nothing is left on it.
ExchangeReports == { [c \in Currencies |-> 0] }

\* Account.refresh_balance (exchange.py:216-233) between two operations of
\* the running account, with the save that follows the caller's work.
LedgerRefresh ==
    /\ pcL = "running"
    /\ \E exchange_balance \in ExchangeReports :
         /\ balance' = get_accounts(balance, exchange_balance, virtual)
         /\ op' = [name |-> "refresh_balance"]
    /\ saved' = SavedState(balance', pending_orders, unconfirmed_orders,
                           done_orders)
    /\ UNCHANGED <<pending_orders, unconfirmed_orders, done_orders, server,
                   pcL, frame, requests, otherVars>>

NextRefresh == Next \/ LedgerRefresh

\* The account is virtual: a non-virtual account tracks nothing of its own
\* (exchange.py:245-247, 413-414).  Its exchange lists its orders, so that
\* reconciliation takes the path of the match and that of the refund.
InitRefresh == Init /\ virtual /\ extype = "bitfinex"

SpecRefresh == InitRefresh /\ [][NextRefresh]_vars

\* C40: for a virtual account whose exchange-reported balances are not
\* negative, the tracked balance of every currency is >= 0 in every
\* reachable state, after any sequence of capture, refund, settlement,
\* refresh and reconciliation; a capture larger than the tracked balance
\* raises InsufficientFunds without debiting anything and without sending a
\* request to the exchange.
C40_VirtualBalanceNeverNegative ==
    [][ virtual =>
          /\ \A c \in Currencies : balance'[c] >= 0
          /\ (op'.name = "_order_action" /\ op'.outcome = "InsufficientFunds")
               => /\ \A c \in Currencies : balance'[c] >= balance[c]
                  /\ server' = server
                  /\ pcL' # "submitting" ]_vars

\* A capture has just been refused for an account whose balance a refresh
\* had lowered to nothing while an order of the account was done.
C40_Witness ==
    /\ virtual
    /\ op.name = "_order_action" /\ op.outcome = "InsufficientFunds"
    /\ done_orders # {}
    /\ \E c \in Currencies : balance[c] = 0
    /\ pcL = "running"

====
